---- MODULE Spec2Model ----
(***************************************************************************)
(* Yongu CM: the persistence and data-interchange layer                    *)
(* (src/services/storage.ts) and the application state controller that     *)
(* drives it (App, src/unnamed/part_005).                                  *)
(*                                                                         *)
(* JavaScript values are tagged records, text is a sequence of one-        *)
(* character strings, JSON text is a sequence of lexical tokens.           *)
(***************************************************************************)
EXTENDS Integers, Sequences, FiniteSets, TLC

VARIABLES
    \* --- App component state (part_005:89-97, 99, 104) ---
    fileHandle, storageMode, isFileLoaded, fsError, isSaving,
    clients, userProfile, isSettingsOpen,
    \* --- environment of the controller ---
    disk,        \* text of the file behind the granted handle
    slot,        \* localStorage['yongu_db_v1'], NoItem when absent
    saves,       \* log of the saveData calls, each with the await it stands at
    openFlow,    \* position of the pending handleOpenFile call
    createFlow,  \* position of the pending handleCreateFile call
    alerts,      \* the alert() messages shown so far
    caught,      \* what the catch block of the last start-up handler caught
    lastSave,    \* how the localStorage call of the last saveData ended
    minted,      \* number of identifiers crypto.randomUUID() has returned
    now,         \* the clock read by new Date()
    hasFilePicker, \* whether window.showOpenFilePicker/showSaveFilePicker exist
    \* --- validateData / loadFromLocalStorage applied to drawn inputs ---
    vIn, vOut, vPc,
    \* --- saveDatabaseFile followed by openDatabaseFile on one handle ---
    fDoc, fPrev, fPc, fFailed, fOut,
    \* --- exportToCSV followed by parseCSV ---
    csvIn, csvContent, csvOut, csvPc

vars == <<fileHandle, storageMode, isFileLoaded, fsError, isSaving,
          clients, userProfile, isSettingsOpen,
          disk, slot, saves, openFlow, createFlow, alerts, caught, lastSave,
          minted, now, hasFilePicker,
          vIn, vOut, vPc, fDoc, fPrev, fPc, fFailed, fOut,
          csvIn, csvContent, csvOut, csvPc>>

ctlVars == <<fileHandle, storageMode, isFileLoaded, fsError, isSaving,
             clients, userProfile, isSettingsOpen,
             openFlow, createFlow, alerts, caught, lastSave, minted,
             hasFilePicker>>
valVars == <<vIn, vOut, vPc>>
fileVars == <<fDoc, fPrev, fPc, fFailed, fOut>>
csvVars == <<csvIn, csvContent, csvOut, csvPc>>

----------------------------------------------------------------------------
(* Bounds *)

MaxTime == 2          \* the clock runs 0..MaxTime
MaxSaves == 2         \* saveData calls in a session
MaxClients == 2       \* contacts held by the controller
MaxCsvContacts == 2   \* contacts in an exported list
MaxIds == 2           \* identifiers minted by crypto.randomUUID()
MaxClock == 1         \* clock ticks during a session of the application

----------------------------------------------------------------------------
(* JavaScript values *)

Undefined == [t |-> "undefined"]
Null == [t |-> "null"]
NaN == [t |-> "nan"]
Bool(b) == [t |-> "bool", b |-> b]
Num(n) == [t |-> "num", n |-> n]
Str(s) == [t |-> "str", s |-> s]
Arr(a) == [t |-> "arr", a |-> a]
Obj(o) == [t |-> "obj", o |-> o]
\* an exception in flight: name and message of the thrown Error
Thrown(name, message) == [t |-> "throw", name |-> name, message |-> message]

IsThrown(v) == v.t = "throw"
IsArray(v) == v.t = "arr"

\* ToBoolean: what `!v` and `v || w` test
Truthy(v) ==
    CASE v.t = "undefined" -> FALSE
      [] v.t = "null" -> FALSE
      [] v.t = "nan" -> FALSE
      [] v.t = "bool" -> v.b
      [] v.t = "num" -> v.n # 0
      [] v.t = "str" -> v.s # <<>>
      [] OTHER -> TRUE

\* v.k : a TypeError on null/undefined, undefined when the member is missing
Get(v, k) ==
    CASE v.t \in {"undefined", "null"} -> Thrown("TypeError", "")
      [] v.t = "obj" -> IF k \in DOMAIN v.o THEN v.o[k] ELSE Undefined
      [] OTHER -> Undefined

\* a || b
OrElse(a, b) == IF Truthy(a) THEN a ELSE b

EmptyObject == [k \in {} |-> Null]
\* { ...o, [k]: v }
With(o, k, v) == [x \in (DOMAIN o) \cup {k} |-> IF x = k THEN v ELSE o[x]]

Digit == <<"0", "1", "2", "3", "4", "5", "6", "7", "8", "9">>
TicksPerDay == 2
\* Date.prototype.toISOString for instant n: <day> T <time of day>
ISOString(n) == <<Digit[(n \div TicksPerDay) + 1], "T", Digit[(n % TicksPerDay) + 1]>>

----------------------------------------------------------------------------
(* JSON text: tokens *)

Tok(k) == [k |-> k, key |-> "", n |-> 0, s |-> <<>>]
KeyTok(key) == [k |-> "key", key |-> key, n |-> 0, s |-> <<>>]
NumTok(n) == [k |-> "num", key |-> "", n |-> n, s |-> <<>>]
StrTok(s) == [k |-> "str", key |-> "", n |-> 0, s |-> s]

\* members are written in insertion order; every object of the program
\* inserts its members in this order
KeyOrder == <<"clients", "profile", "lastUpdated",
              "id", "name", "company", "role", "email", "phone", "sector",
              "status", "statusUpdatedAt", "continent", "location", "lat",
              "lng", "website", "rate", "notes", "tags", "logs",
              "lastContactDate", "nextFollowUpDate",
              "industry", "date", "type", "x">>

RECURSIVE QuoteJSON(_)
\* the body of a JSON string literal: escape quote, backslash, line feed
QuoteJSON(s) ==
    IF s = <<>> THEN <<>>
    ELSE LET c == Head(s) IN
         (CASE c = "\"" -> <<"\\", "\"">>
            [] c = "\\" -> <<"\\", "\\">>
            [] c = "\n" -> <<"\\", "n">>
            [] OTHER -> <<c>>) \o QuoteJSON(Tail(s))

RECURSIVE UnquoteJSON(_)
\* inverse scan of a string literal body; <<"!">> marks a malformed literal
BadLiteral == <<"!">>
UnquoteJSON(s) ==
    IF s = <<>> THEN <<>>
    ELSE LET c == Head(s) IN
         IF c \in {"\"", "\n"} THEN BadLiteral
         ELSE IF c = "\\"
              THEN IF Len(s) < 2 \/ s[2] \notin {"\"", "\\", "n"} THEN BadLiteral
                   ELSE LET rest == UnquoteJSON(Tail(Tail(s))) IN
                        IF rest = BadLiteral THEN BadLiteral
                        ELSE <<IF s[2] = "n" THEN "\n" ELSE s[2]>> \o rest
              ELSE LET rest == UnquoteJSON(Tail(s)) IN
                   IF rest = BadLiteral THEN BadLiteral ELSE <<c>> \o rest

RECURSIVE Concat(_, _, _)
\* the texts parts[lo..hi] one after the other
Concat(parts, lo, hi) ==
    IF lo > hi THEN <<>>
    ELSE IF lo = hi THEN parts[lo]
    ELSE LET mid == (lo + hi) \div 2 IN
         Concat(parts, lo, mid) \o Concat(parts, mid + 1, hi)

RECURSIVE Stringify(_, _)
\* JSON.stringify(v) and, with pretty, JSON.stringify(v, null, 2).
\* Members whose value is undefined are left out; an undefined or NaN
\* element or value is written as null.
Stringify(v, pretty) ==
    LET ws == IF pretty THEN <<Tok("ws")>> ELSE <<>> IN
    CASE v.t \in {"null", "nan", "undefined"} -> <<Tok("null")>>
      [] v.t = "bool" -> <<Tok(IF v.b THEN "true" ELSE "false")>>
      [] v.t = "num" -> <<NumTok(v.n)>>
      [] v.t = "str" -> <<StrTok(QuoteJSON(v.s))>>
      [] v.t = "arr" ->
            IF Len(v.a) = 0 THEN <<Tok("["), Tok("]")>>
            ELSE LET Element(i) ==
                        (IF i = 1 THEN <<>> ELSE <<Tok(",")>>) \o ws
                        \o Stringify(v.a[i], pretty)
                 IN <<Tok("[")>>
                    \o Concat([i \in 1..Len(v.a) |-> Element(i)], 1, Len(v.a))
                    \o ws \o <<Tok("]")>>
      [] v.t = "obj" ->
            LET Written(k) == k \in DOMAIN v.o /\ v.o[k].t # "undefined"
                keys == SelectSeq(KeyOrder, Written)
                Member(i) ==
                    (IF i = 1 THEN <<>> ELSE <<Tok(",")>>) \o ws
                    \o <<KeyTok(keys[i]), Tok(":")>> \o ws
                    \o Stringify(v.o[keys[i]], pretty)
            IN IF Len(keys) = 0 THEN <<Tok("{"), Tok("}")>>
               ELSE <<Tok("{")>>
                    \o Concat([i \in 1..Len(keys) |-> Member(i)], 1, Len(keys))
                    \o ws \o <<Tok("}")>>

IsWs(tk) == tk.k = "ws"
NotWs(tk) == tk.k # "ws"

ParseFail == [ok |-> FALSE, v |-> Null, i |-> 0]
ParseOk(v, i) == [ok |-> TRUE, v |-> v, i |-> i]

RECURSIVE ParseValue(_, _), ParseElements(_, _, _), ParseMembers(_, _, _)
\* one JSON value starting at token i of ts (white space already skipped)
ParseValue(ts, i) ==
    IF i > Len(ts) THEN ParseFail
    ELSE LET tk == ts[i] IN
         CASE tk.k = "null" -> ParseOk(Null, i + 1)
           [] tk.k = "true" -> ParseOk(Bool(TRUE), i + 1)
           [] tk.k = "false" -> ParseOk(Bool(FALSE), i + 1)
           [] tk.k = "num" -> ParseOk(Num(tk.n), i + 1)
           [] tk.k = "str" ->
                 LET s == UnquoteJSON(tk.s) IN
                 IF s = BadLiteral THEN ParseFail ELSE ParseOk(Str(s), i + 1)
           [] tk.k = "[" ->
                 IF i + 1 <= Len(ts) /\ ts[i + 1].k = "]"
                 THEN ParseOk(Arr(<<>>), i + 2)
                 ELSE ParseElements(ts, i + 1, <<>>)
           [] tk.k = "{" ->
                 IF i + 1 <= Len(ts) /\ ts[i + 1].k = "}"
                 THEN ParseOk(Obj(EmptyObject), i + 2)
                 ELSE ParseMembers(ts, i + 1, EmptyObject)
           [] OTHER -> ParseFail

ParseElements(ts, i, acc) ==
    LET r == ParseValue(ts, i) IN
    IF ~r.ok \/ r.i > Len(ts) THEN ParseFail
    ELSE IF ts[r.i].k = "," THEN ParseElements(ts, r.i + 1, Append(acc, r.v))
    ELSE IF ts[r.i].k = "]" THEN ParseOk(Arr(Append(acc, r.v)), r.i + 1)
    ELSE ParseFail

ParseMembers(ts, i, acc) ==
    IF i + 1 > Len(ts) \/ ts[i].k # "key" \/ ts[i + 1].k # ":" THEN ParseFail
    ELSE LET r == ParseValue(ts, i + 2) IN
         IF ~r.ok \/ r.i > Len(ts) THEN ParseFail
         ELSE LET o == With(acc, ts[i].key, r.v) IN
              IF ts[r.i].k = "," THEN ParseMembers(ts, r.i + 1, o)
              ELSE IF ts[r.i].k = "}" THEN ParseOk(Obj(o), r.i + 1)
              ELSE ParseFail

\* JSON.parse(text): the value, or a SyntaxError
JSONparse(text) ==
    LET ts == SelectSeq(text, NotWs)
        r == ParseValue(ts, 1)
    IN IF r.ok /\ r.i = Len(ts) + 1 THEN r.v ELSE Thrown("SyntaxError", "")

----------------------------------------------------------------------------
(* storage.ts: validateData, createNewDatabase *)

AppData(cl, profile, lastUpdated) ==
    Obj([clients |-> cl, profile |-> profile, lastUpdated |-> lastUpdated])

\* validateData with the `!data ||` guard removed
validateData_noNullGuard(data, t) ==
    LET cl == Get(data, "clients") IN
    IF IsThrown(cl) THEN cl
    ELSE IF ~IsArray(cl)
    THEN AppData(Arr(<<>>), Null, Str(ISOString(t)))
    ELSE AppData(cl, OrElse(Get(data, "profile"), Null),
                 OrElse(Get(data, "lastUpdated"), Str(ISOString(t))))

\* validateData(data) evaluated at clock value t
validateData(data, t) ==
    IF ~Truthy(data) THEN AppData(Arr(<<>>), Null, Str(ISOString(t)))
    ELSE LET cl == Get(data, "clients") IN
         IF IsThrown(cl) THEN cl
         ELSE IF ~IsArray(cl)
         THEN AppData(Arr(<<>>), Null, Str(ISOString(t)))
         ELSE AppData(cl, OrElse(Get(data, "profile"), Null),
                      OrElse(Get(data, "lastUpdated"), Str(ISOString(t))))


\* INITIAL_CLIENTS of constants.ts: the demo contacts a new database holds
SeedId == <<"s">>
INITIAL_CLIENTS ==
    <<Obj([id |-> Str(SeedId), name |-> Str(<<"d">>), company |-> Str(<<"e">>),
           role |-> Str(<<>>), email |-> Str(<<>>),
           sector |-> Str(<<"O", "t", "h", "e", "r">>),
           status |-> Str(<<"N", "e", "w">>),
           continent |-> Str(<<"E", "u", "r", "o", "p", "e">>),
           notes |-> Str(<<>>), tags |-> Arr(<<>>), logs |-> Arr(<<>>)])>>

\* createNewDatabase() at clock value t
createNewDatabase(t) == AppData(Arr(INITIAL_CLIENTS), Null, Str(ISOString(t)))

----------------------------------------------------------------------------
(* storage.ts: the localStorage slot *)

NoItem == [present |-> FALSE, text |-> <<>>]
Item(text) == [present |-> TRUE, text |-> text]

\* loadFromLocalStorage without its try/catch
loadFromLocalStorage_noCatch(s, t) ==
    IF ~s.present \/ s.text = <<>> THEN [ret |-> Null, slot |-> s]
    ELSE LET json == JSONparse(s.text) IN
         IF IsThrown(json) THEN [ret |-> json, slot |-> s]
         ELSE [ret |-> validateData(json, t), slot |-> s]

\* loadFromLocalStorage() on slot s at clock value t: the returned value and
\* the slot afterwards
loadFromLocalStorage(s, t) ==
    IF ~s.present \/ s.text = <<>> THEN [ret |-> Null, slot |-> s]
    ELSE LET json == JSONparse(s.text) IN
         IF IsThrown(json) THEN [ret |-> Null, slot |-> s]
         ELSE LET data == validateData(json, t) IN
              IF IsThrown(data) THEN [ret |-> Null, slot |-> s]
              ELSE [ret |-> data, slot |-> s]

\* saveToLocalStorage(data) on slot s; accepts says whether setItem succeeds.
\* ret is what the caller gets, alert whether the warning dialog was shown.
saveToLocalStorage(s, data, accepts) ==
    IF accepts
    THEN [ret |-> Undefined, slot |-> Item(Stringify(data, FALSE)), alert |-> FALSE]
    ELSE [ret |-> Undefined, slot |-> s, alert |-> TRUE]


----------------------------------------------------------------------------
(* App: the state after construction (part_005:89-110) *)

NoHandle == "null"
NoError == "null"
NOT_SUPPORTED_MSG == "File System not supported on this device. Please use 'Browser Storage'."
OPEN_FAILED_MSG == "Failed to open file. Please ensure it is a valid .json or .yongu file."
CREATE_FAILED_MSG == "Failed to create file."

\* a start-up handler that is not running
Idle == [pc |-> "idle"]
NothingCaught == [by |-> "none", e |-> Null]
NoSave == [called |-> FALSE, rejected |-> FALSE, threw |-> FALSE]

CtlInit ==
    /\ fileHandle = NoHandle
    /\ storageMode = "FILE"
    /\ isFileLoaded = FALSE
    /\ fsError = NoError
    /\ isSaving = FALSE
    /\ clients = <<>>
    /\ userProfile = Null
    /\ isSettingsOpen = FALSE
    /\ openFlow = Idle
    /\ createFlow = Idle
    /\ alerts = {}
    /\ caught = NothingCaught
    /\ lastSave = NoSave
    /\ minted = 0

EnvInit ==
    /\ disk = <<>>
    /\ slot = NoItem
    /\ saves = <<>>
    /\ now = 0

ValOff == vIn = Undefined /\ vOut = Undefined /\ vPc = "off"
FileOff ==
    fDoc = Undefined /\ fPrev = <<>> /\ fPc = "off" /\ fFailed = FALSE /\ fOut = Undefined
CsvOff == csvIn = <<>> /\ csvContent = <<>> /\ csvOut = Undefined /\ csvPc = "off"

----------------------------------------------------------------------------
(* Inputs of validateData and loadFromLocalStorage *)

SampleProfile == Obj([name |-> Str(<<"a">>), industry |-> Str(<<"b">>)])
SampleClient ==
    Obj([id |-> Str(<<"1">>), name |-> Str(<<"a">>), company |-> Str(<<"b">>),
         role |-> Str(<<>>), email |-> Str(<<>>),
         sector |-> Str(<<"O", "t", "h", "e", "r">>),
         status |-> Str(<<"N", "e", "w">>),
         continent |-> Str(<<"A", "s", "i", "a">>),
         notes |-> Str(<<>>), tags |-> Arr(<<Str(<<"a">>)>>), logs |-> Arr(<<>>)])

\* what the profile member of a parsed document can hold
ProfileValues ==
    {Undefined, Null, Bool(FALSE), Bool(TRUE), Num(0), Num(1),
     Str(<<>>), Str(<<"a">>), Arr(<<>>), Obj(EmptyObject), SampleProfile}
LastUpdatedValues == {Undefined, Str(<<>>), Str(ISOString(1))}
ClientsValues == {Arr(<<>>), Arr(<<SampleClient>>), Arr(<<Num(1)>>)}

\* an object literal with the given members, undefined ones left out
DocOf(cl, profile, lastUpdated) ==
    LET o0 == [clients |-> cl]
        o1 == IF profile = Undefined THEN o0 ELSE With(o0, "profile", profile)
        o2 == IF lastUpdated = Undefined THEN o1 ELSE With(o1, "lastUpdated", lastUpdated)
    IN Obj(o2)

ShapedValues ==
    {DocOf(cl, pr, lu) : cl \in ClientsValues, pr \in ProfileValues,
                         lu \in LastUpdatedValues}

\* values with no clients sequence
UnshapedValues ==
    {Undefined, Null, NaN, Bool(FALSE), Bool(TRUE), Num(0), Num(1),
     Str(<<>>), Str(<<"a">>), Arr(<<>>), Arr(<<SampleClient>>),
     Obj(EmptyObject), Obj([profile |-> SampleProfile]),
     Obj([clients |-> Str(<<"a">>)]), Obj([clients |-> Null]),
     Obj([clients |-> Num(1)]), Obj([clients |-> Obj(EmptyObject)]),
     Obj([clients |-> Undefined, profile |-> SampleProfile])}

RawValues == ShapedValues \cup UnshapedValues

\* values JSON text can denote
JSONValues == RawValues \ {Undefined, NaN, Obj([clients |-> Undefined, profile |-> SampleProfile])}

Prefixes(text) == {SubSeq(text, 1, n) : n \in 0..Len(text)}

\* what the slot can hold: nothing, JSON text written by any program, and
\* damaged text (truncated, or with a malformed string literal)
SlotTexts ==
    {Stringify(v, FALSE) : v \in JSONValues}
    \cup Prefixes(Stringify(DocOf(Arr(<<SampleClient>>), SampleProfile, Str(ISOString(1))), FALSE))
    \cup {<<StrTok(<<"\\">>)>>, <<Tok("bad")>>, <<Tok("{"), Tok("}"), Tok("}")>>}
SlotValues == {NoItem} \cup {Item(x) : x \in SlotTexts}

----------------------------------------------------------------------------
(* validateData and loadFromLocalStorage applied to the drawn inputs *)

ValInit ==
    /\ CtlInit /\ FileOff /\ CsvOff /\ hasFilePicker = TRUE
    /\ disk = <<>> /\ saves = <<>> /\ now = 0
    /\ \/ vIn \in RawValues /\ slot = NoItem /\ vPc = "value"
       \/ vIn = Undefined /\ slot \in SlotValues /\ vPc = "slot"
    /\ vOut = Undefined

\* time passes before the call
ValTick ==
    /\ vPc \in {"value", "slot"}
    /\ now < MaxTime
    /\ now' = now + 1
    /\ UNCHANGED <<ctlVars, disk, slot, saves, valVars, fileVars, csvVars>>

Validate ==
    /\ vPc = "value"
    /\ vOut' = validateData(vIn, now)
    /\ vPc' = "validated"
    /\ UNCHANGED <<ctlVars, disk, slot, saves, now, vIn, fileVars, csvVars>>

\* vIn keeps the slot as it was when the call began
Load ==
    /\ vPc = "slot"
    /\ LET r == loadFromLocalStorage(slot, now) IN
          /\ vOut' = r.ret
          /\ slot' = r.slot
    /\ vIn' = slot
    /\ vPc' = "loaded"
    /\ UNCHANGED <<ctlVars, disk, saves, now, fileVars, csvVars>>

ValNext == ValTick \/ Validate \/ Load

SpecValidate == ValInit /\ [][ValNext]_vars


----------------------------------------------------------------------------
(* Properties of validateData and loadFromLocalStorage *)

\* absent, not an object, or without a clients sequence
BadShape(v) == v.t # "obj" \/ "clients" \notin DOMAIN v.o \/ v.o["clients"].t # "arr"
ObjectLike(v) == v.t \in {"obj", "arr"}
ZeroDocument(t) == AppData(Arr(<<>>), Null, Str(ISOString(t)))

\* C2: validateData never throws; on an input that is absent, not an object
\* or has no clients sequence it returns the zero-value document stamped with
\* the current time; every document it returns has clients as a sequence.
C2_ValidateRepairs ==
    vPc = "validated" =>
        /\ ~IsThrown(vOut)
        /\ BadShape(vIn) => vOut = ZeroDocument(now)
        /\ IsArray(Get(vOut, "clients"))

C2_Witness ==
    /\ vPc = "validated"
    /\ vIn = Obj([clients |-> Str(<<"a">>)])
    /\ vOut = ZeroDocument(now)

\* C3: with clients a sequence, validateData returns the input's profile
\* when it is present and object-like, and null in every other case.
C3_ProfileObjectOrNone ==
    (vPc = "validated" /\ ~BadShape(vIn)) =>
        Get(vOut, "profile") =
            IF ObjectLike(Get(vIn, "profile")) THEN Get(vIn, "profile") ELSE Null

\* C10: loadFromLocalStorage never throws, returns null for an absent slot
\* and for a slot whose text does not parse, returns the validated parse of
\* the slot otherwise, and leaves the slot as it was.
C10_LoadLenient ==
    vPc = "loaded" =>
        /\ ~IsThrown(vOut)
        /\ slot = vIn
        /\ ~vIn.present => vOut = Null
        /\ (vIn.present /\ IsThrown(JSONparse(vIn.text))) => vOut = Null
        /\ (vIn.present /\ ~IsThrown(JSONparse(vIn.text)))
              => vOut = validateData(JSONparse(vIn.text), now)

C10_Witness ==
    /\ vPc = "loaded"
    /\ vIn.present /\ vIn.text # <<>>
    /\ IsThrown(JSONparse(vIn.text))
    /\ vOut = Null

----------------------------------------------------------------------------
(* Text: sequences of one-character strings *)

UpperCase == <<"A", "B", "C", "D", "E", "F", "G", "H", "I", "J", "K", "L", "M", "N", "O", "P", "Q", "R", "S", "T", "U", "V", "W", "X", "Y", "Z">>
LowerCase == <<"a", "b", "c", "d", "e", "f", "g", "h", "i", "j", "k", "l", "m", "n", "o", "p", "q", "r", "s", "t", "u", "v", "w", "x", "y", "z">>
WhiteSpace == {" ", "\t", "\r", "\n"}

\* String.prototype.toLowerCase, one character
LowerChar(c) ==
    IF \E i \in 1..26 : UpperCase[i] = c
    THEN LowerCase[CHOOSE i \in 1..26 : UpperCase[i] = c]
    ELSE c
toLowerCase(s) == [i \in 1..Len(s) |-> LowerChar(s[i])]

RECURSIVE TrimStart(_)
TrimStart(s) ==
    IF s # <<>> /\ Head(s) \in WhiteSpace THEN TrimStart(Tail(s)) ELSE s
RECURSIVE TrimEnd(_)
TrimEnd(s) ==
    IF s # <<>> /\ s[Len(s)] \in WhiteSpace
    THEN TrimEnd(SubSeq(s, 1, Len(s) - 1)) ELSE s
\* String.prototype.trim
trim(s) == TrimEnd(TrimStart(s))

\* String.prototype.includes
includes(s, part) ==
    \E i \in 1..(Len(s) - Len(part) + 1) : SubSeq(s, i, i + Len(part) - 1) = part

\* String.prototype.split on the one-character separator sep: the pieces
\* between consecutive occurrences of sep
split(s, sep) ==
    LET at == {i \in 1..Len(s) : s[i] = sep}
        n == Cardinality(at) + 1
        Cut(k) == IF k = 0 THEN 0
                  ELSE IF k = n THEN Len(s) + 1
                  ELSE CHOOSE p \in at : Cardinality({q \in at : q < p}) = k - 1
    IN [k \in 1..n |-> SubSeq(s, Cut(k - 1) + 1, Cut(k) - 1)]

\* csvContent.split(/\r?\n/): a carriage return before the line feed goes too
DropCR(line) ==
    IF line # <<>> /\ line[Len(line)] = "\r" THEN SubSeq(line, 1, Len(line) - 1) ELSE line
SplitLines(text) ==
    LET raw == split(text, "\n") IN
    [i \in 1..Len(raw) |-> IF i < Len(raw) THEN DropCR(raw[i]) ELSE raw[i]]

RECURSIVE JoinRange(_, _, _, _)
JoinRange(parts, sep, lo, hi) ==
    IF lo > hi THEN <<>>
    ELSE IF lo = hi THEN parts[lo]
    ELSE LET mid == (lo + hi) \div 2 IN
         JoinRange(parts, sep, lo, mid) \o sep \o JoinRange(parts, sep, mid + 1, hi)
\* Array.prototype.join of texts
join(parts, sep) == JoinRange(parts, sep, 1, Len(parts))

RECURSIVE DoubleQuotes(_)
\* text.replace(/"/g, '""')
DoubleQuotes(s) ==
    IF s = <<>> THEN <<>>
    ELSE (IF Head(s) = "\"" THEN <<"\"", "\"">> ELSE <<Head(s)>>) \o DoubleQuotes(Tail(s))

----------------------------------------------------------------------------
(* Dates *)

Invalid == -1
IsDigit(c) == \E i \in 1..10 : Digit[i] = c
DigitValue(c) == (CHOOSE i \in 1..10 : Digit[i] = c) - 1

\* new Date(text): the instant, or Invalid.  Accepted texts are the ISO form
\* <day>T<time>, the locale date form <day>/ (midnight of that day) and the
\* ISO date <day> that a date input holds (midnight of that day).
DateParse(s) ==
    IF Len(s) = 3 /\ s[2] = "T" /\ IsDigit(s[1]) /\ IsDigit(s[3])
          /\ DigitValue(s[3]) < TicksPerDay
    THEN DigitValue(s[1]) * TicksPerDay + DigitValue(s[3])
    ELSE IF Len(s) = 2 /\ s[2] = "/" /\ IsDigit(s[1])
    THEN DigitValue(s[1]) * TicksPerDay
    ELSE IF Len(s) = 1 /\ IsDigit(s[1])
    THEN DigitValue(s[1]) * TicksPerDay
    ELSE Invalid

\* new Date(text).toLocaleDateString(): the day, without the time of day
toLocaleDateString(s) ==
    LET d == DateParse(s) IN
    IF d = Invalid THEN <<"I", "n", "v", "a", "l", "i", "d", " ", "D", "a", "t", "e">> ELSE <<Digit[(d \div TicksPerDay) + 1], "/">>

\* new Date(text).toISOString(): throws RangeError on an invalid date
toISOString(s) ==
    LET d == DateParse(s) IN
    IF d = Invalid THEN Thrown("RangeError", "Invalid time value")
    ELSE Str(ISOString(d))

----------------------------------------------------------------------------
(* storage.ts: exportToCSV, parseCSV *)

ClientStatus ==
       ("OLD" :> <<"O", "l", "d">>)
       @@ ("NEW" :> <<"N", "e", "w">>)
       @@ ("CONTACTED" :> <<"C", "o", "n", "t", "a", "c", "t", "e", "d">>)
       @@ ("NEGOTIATING" :> <<"N", "e", "g", "o", "t", "i", "a", "t", "i", "n", "g">>)
       @@ ("ACTIVE" :> <<"A", "c", "t", "i", "v", "e">>)
       @@ ("COMPLETED" :> <<"C", "o", "m", "p", "l", "e", "t", "e", "d">>)
       @@ ("ARCHIVED" :> <<"A", "r", "c", "h", "i", "v", "e", "d">>)

IndustrySector ==
       ("VFX_FILM" :> <<"V", "F", "X", " ", "(", "F", "i", "l", "m", ")">>)
       @@ ("VFX_COMMERCIAL" :> <<"V", "F", "X", " ", "(", "C", "o", "m", "m", "e", "r", "c", "i", "a", "l", ")">>)
       @@ ("ANIMATION" :> <<"A", "n", "i", "m", "a", "t", "i", "o", "n">>)
       @@ ("GAMES_REALTIME" :> <<"G", "a", "m", "e", "s", "/", "R", "e", "a", "l", "t", "i", "m", "e">>)
       @@ ("AI_GEN" :> <<"G", "e", "n", "e", "r", "a", "t", "i", "v", "e", " ", "A", "I">>)
       @@ ("MOGRAPH" :> <<"M", "o", "t", "i", "o", "n", " ", "G", "r", "a", "p", "h", "i", "c", "s">>)
       @@ ("OTHER" :> <<"O", "t", "h", "e", "r">>)

Continent ==
       ("NORTH_AMERICA" :> <<"N", "o", "r", "t", "h", " ", "A", "m", "e", "r", "i", "c", "a">>)
       @@ ("SOUTH_AMERICA" :> <<"S", "o", "u", "t", "h", " ", "A", "m", "e", "r", "i", "c", "a">>)
       @@ ("EUROPE" :> <<"E", "u", "r", "o", "p", "e">>)
       @@ ("ASIA" :> <<"A", "s", "i", "a">>)
       @@ ("AFRICA" :> <<"A", "f", "r", "i", "c", "a">>)
       @@ ("OCEANIA" :> <<"O", "c", "e", "a", "n", "i", "a">>)
       @@ ("ANTARCTICA" :> <<"A", "n", "t", "a", "r", "c", "t", "i", "c", "a">>)

CsvHeaders ==
    <<<<"N", "a", "m", "e">>, <<"C", "o", "m", "p", "a", "n", "y">>, <<"R", "o", "l", "e">>, <<"S", "t", "a", "t", "u", "s">>, <<"S", "e", "c", "t", "o", "r">>,
      <<"E", "m", "a", "i", "l">>, <<"P", "h", "o", "n", "e">>, <<"L", "o", "c", "a", "t", "i", "o", "n">>, <<"L", "a", "s", "t", " ", "C", "o", "n", "t", "a", "c", "t">>,
      <<"N", "e", "x", "t", " ", "F", "o", "l", "l", "o", "w", " ", "U", "p">>, <<"R", "a", "t", "e">>, <<"N", "o", "t", "e", "s">>, <<"T", "a", "g", "s">>>>

\* esc that leaves embedded double quotes single
esc_noDoubling(text) ==
    IF ~Truthy(text) THEN <<"\"", "\"">>
    ELSE <<"\"">> \o text.s \o <<"\"">>

\* esc(text): text is a string value or undefined
esc(text) ==
    IF ~Truthy(text) THEN <<"\"", "\"">>
    ELSE <<"\"">> \o DoubleQuotes(text.s) \o <<"\"">>

\* c.tags.join(', ')
JoinTags(c) ==
    LET tags == Get(c, "tags").a IN
    Str(join([i \in 1..Len(tags) |-> tags[i].s], <<",", " ">>))

\* c.<date> ? new Date(c.<date>).toLocaleDateString() : ''
LocaleDateOf(c, k) ==
    IF Truthy(Get(c, k)) THEN Str(toLocaleDateString(Get(c, k).s)) ELSE Str(<<>>)

CsvRow(c) ==
    <<esc(Get(c, "name")), esc(Get(c, "company")), esc(Get(c, "role")),
      esc(Get(c, "status")), esc(Get(c, "sector")), esc(Get(c, "email")),
      esc(Get(c, "phone")), esc(Get(c, "location")),
      esc(LocaleDateOf(c, "lastContactDate")),
      esc(LocaleDateOf(c, "nextFollowUpDate")),
      esc(Get(c, "rate")), esc(Get(c, "notes")), esc(JoinTags(c))>>

\* exportToCSV(clients): the csvContent handed to the download
exportToCSV(cs) ==
    join(<<join(CsvHeaders, <<",">>)>>
         \o [i \in 1..Len(cs) |-> join(CsvRow(cs[i]), <<",">>)], <<"\n">>)

RECURSIVE ScanField(_, _, _, _)
\* the loop of splitCSVLine from character i up to the comma that pushes
\* the field (or the end of the line): the field and where the loop stands
ScanField(line, i, current, inQuotes) ==
    IF i > Len(line) THEN [current |-> current, i |-> i]
    ELSE LET char == line[i] IN
         IF char = "\""
         THEN IF i + 1 <= Len(line) /\ line[i + 1] = "\""
              THEN ScanField(line, i + 2, Append(current, "\""), inQuotes)
              ELSE ScanField(line, i + 1, current, ~inQuotes)
         ELSE IF char = "," /\ ~inQuotes
         THEN [current |-> current, i |-> i]
         ELSE ScanField(line, i + 1, Append(current, char), inQuotes)

RECURSIVE SplitCSVLineFrom(_, _, _)
\* res.push(current) at each unquoted comma and once after the loop
SplitCSVLineFrom(line, i, res) ==
    LET f == ScanField(line, i, <<>>, FALSE) IN
    IF f.i > Len(line) THEN Append(res, f.current)
    ELSE SplitCSVLineFrom(line, f.i + 1, Append(res, f.current))

\* splitCSVLine(line)
splitCSVLine(line) == SplitCSVLineFrom(line, 1, <<>>)

\* a lookup by the position the column has in the export, whatever the headers
FindHeader_positional(headers, keyPart) ==
    LET at == {i \in 1..Len(CsvHeaders) : includes(toLowerCase(CsvHeaders[i]), keyPart)} IN
    IF at = {} THEN 0
    ELSE LET i == CHOOSE i \in at : TRUE IN IF i <= Len(headers) THEN i ELSE 0

\* a lookup that takes the last header holding keyPart
FindHeader_last(headers, keyPart) ==
    IF \E i \in 1..Len(headers) : includes(headers[i], keyPart)
    THEN CHOOSE i \in 1..Len(headers) :
            /\ includes(headers[i], keyPart)
            /\ \A j \in (i + 1)..Len(headers) : ~includes(headers[j], keyPart)
    ELSE 0

\* headers.findIndex(h => h.includes(keyPart)), 0 when there is none
FindHeader(headers, keyPart) ==
    IF \E i \in 1..Len(headers) : includes(headers[i], keyPart)
    THEN CHOOSE i \in 1..Len(headers) :
            /\ includes(headers[i], keyPart)
            /\ \A j \in 1..(i - 1) : ~includes(headers[j], keyPart)
    ELSE 0

\* val(keyPart): index > -1 ? values[index]?.trim() : ''
val(headers, values, keyPart) ==
    LET index == FindHeader(headers, keyPart) IN
    IF index = 0 THEN Str(<<>>)
    ELSE IF index > Len(values) THEN Undefined
    ELSE Str(trim(values[index]))

\* crypto.randomUUID(): the n-th identifier handed out
randomUUID(n) == Str(<<"u", Digit[n + 1]>>)

\* val(k) ? new Date(val(k)).toISOString() : undefined
ImportDate(v) == IF Truthy(v) THEN toISOString(v.s) ELSE Undefined

\* val('tags') ? val('tags').split(',').map(t => t.trim()).filter(Boolean) : []
ImportTags(v) ==
    IF ~Truthy(v) THEN Arr(<<>>)
    ELSE LET parts == split(v.s, ",")
             trimmed == [i \in 1..Len(parts) |-> Str(trim(parts[i]))]
         IN Arr(SelectSeq(trimmed, Truthy))

\* a newClient that reads the continent from a column of that name
NewClient_continentColumn(headers, values, id) ==
    LET last == ImportDate(val(headers, values, <<"l", "a", "s", "t", " ", "c", "o", "n", "t", "a", "c", "t">>))
        next == ImportDate(val(headers, values, <<"n", "e", "x", "t", " ", "f", "o", "l", "l", "o", "w">>))
    IN IF IsThrown(last) THEN last
       ELSE IF IsThrown(next) THEN next
       ELSE Obj([id |-> id,
                 name |-> val(headers, values, <<"n", "a", "m", "e">>),
                 company |-> OrElse(val(headers, values, <<"c", "o", "m", "p", "a", "n", "y">>), Str(<<"U", "n", "k", "n", "o", "w", "n">>)),
                 role |-> val(headers, values, <<"r", "o", "l", "e">>),
                 status |-> OrElse(val(headers, values, <<"s", "t", "a", "t", "u", "s">>), Str(ClientStatus["NEW"])),
                 sector |-> OrElse(val(headers, values, <<"s", "e", "c", "t", "o", "r">>), Str(IndustrySector["OTHER"])),
                 email |-> val(headers, values, <<"e", "m", "a", "i", "l">>),
                 phone |-> val(headers, values, <<"p", "h", "o", "n", "e">>),
                 location |-> val(headers, values, <<"l", "o", "c", "a", "t", "i", "o", "n">>),
                 continent |-> OrElse(val(headers, values, <<"c", "o", "n", "t", "i", "n", "e", "n", "t">>), Str(Continent["NORTH_AMERICA"])),
                 lastContactDate |-> last,
                 nextFollowUpDate |-> next,
                 rate |-> val(headers, values, <<"r", "a", "t", "e">>),
                 notes |-> val(headers, values, <<"n", "o", "t", "e", "s">>),
                 tags |-> ImportTags(val(headers, values, <<"t", "a", "g", "s">>)),
                 logs |-> Arr(<<>>)])

\* the newClient literal of one row; a thrown RangeError when a date cell
\* does not parse
NewClient(headers, values, id) ==
    LET last == ImportDate(val(headers, values, <<"l", "a", "s", "t", " ", "c", "o", "n", "t", "a", "c", "t">>))
        next == ImportDate(val(headers, values, <<"n", "e", "x", "t", " ", "f", "o", "l", "l", "o", "w">>))
    IN IF IsThrown(last) THEN last
       ELSE IF IsThrown(next) THEN next
       ELSE Obj([id |-> id,
                 name |-> val(headers, values, <<"n", "a", "m", "e">>),
                 company |-> OrElse(val(headers, values, <<"c", "o", "m", "p", "a", "n", "y">>), Str(<<"U", "n", "k", "n", "o", "w", "n">>)),
                 role |-> val(headers, values, <<"r", "o", "l", "e">>),
                 status |-> OrElse(val(headers, values, <<"s", "t", "a", "t", "u", "s">>), Str(ClientStatus["NEW"])),
                 sector |-> OrElse(val(headers, values, <<"s", "e", "c", "t", "o", "r">>), Str(IndustrySector["OTHER"])),
                 email |-> val(headers, values, <<"e", "m", "a", "i", "l">>),
                 phone |-> val(headers, values, <<"p", "h", "o", "n", "e">>),
                 location |-> val(headers, values, <<"l", "o", "c", "a", "t", "i", "o", "n">>),
                 continent |-> Str(Continent["NORTH_AMERICA"]),
                 lastContactDate |-> last,
                 nextFollowUpDate |-> next,
                 rate |-> val(headers, values, <<"r", "a", "t", "e">>),
                 notes |-> val(headers, values, <<"n", "o", "t", "e", "s">>),
                 tags |-> ImportTags(val(headers, values, <<"t", "a", "g", "s">>)),
                 logs |-> Arr(<<>>)])

RECURSIVE ParseRows(_, _, _, _, _)
\* the loop over lines[1..]: i is the line, acc the clients pushed so far
ParseRows(lines, headers, i, acc, firstId) ==
    IF i > Len(lines) THEN Arr(acc)
    ELSE LET line == trim(lines[i])
             values == splitCSVLine(line)
         IN IF line = <<>> \/ Len(values) < 2
            THEN ParseRows(lines, headers, i + 1, acc, firstId)
            ELSE IF ~Truthy(val(headers, values, <<"n", "a", "m", "e">>))
            THEN ParseRows(lines, headers, i + 1, acc, firstId)
            ELSE LET c == NewClient(headers, values, randomUUID(firstId + Len(acc))) IN
                 IF IsThrown(c) THEN c
                 ELSE ParseRows(lines, headers, i + 1, Append(acc, c), firstId)

\* parseCSV(csvText): the array of clients, or the exception that ends it;
\* firstId numbers the identifiers it mints
parseCSV(csvText, firstId) ==
    LET lines == SplitLines(csvText) IN
    IF Len(lines) < 2 THEN Arr(<<>>)
    ELSE LET split0 == splitCSVLine(lines[1])
             headers == [i \in 1..Len(split0) |-> toLowerCase(trim(split0[i]))]
         IN ParseRows(lines, headers, 2, <<>>, firstId)

----------------------------------------------------------------------------
(* exportToCSV followed by parseCSV on drawn contact lists *)

\* a contact with a value in every exported column
FullContact ==
    Obj([id |-> Str(<<"1">>), name |-> Str(<<"a">>), company |-> Str(<<"b">>),
         role |-> Str(<<"r">>), status |-> Str(ClientStatus["ACTIVE"]),
         sector |-> Str(IndustrySector["ANIMATION"]), email |-> Str(<<"e">>),
         phone |-> Str(<<"p">>), location |-> Str(<<"l">>),
         continent |-> Str(Continent["ASIA"]),
         lastContactDate |-> Str(ISOString(2)),
         nextFollowUpDate |-> Str(ISOString(3)),
         rate |-> Str(<<"5">>), notes |-> Str(<<"n">>),
         tags |-> Arr(<<Str(<<"t">>), Str(<<"u">>)>>), logs |-> Arr(<<>>)])

\* { ...c, [k]: v }
WithField(c, k, v) == Obj(With(c.o, k, v))
\* c without member k
WithoutField(c, k) == Obj([x \in (DOMAIN c.o) \ {k} |-> c.o[x]])

\* contacts the edit form can produce: the full one, and the full one with
\* one field emptied, left out, or holding a quote, a comma or a blank
CsvContacts ==
    {FullContact,
     WithField(FullContact, "name", Str(<<"a", " ", "b">>)),
     WithField(FullContact, "name", Str(<<"a", "\"", "b">>)),
     WithField(FullContact, "company", Str(<<"b", ",", " ", "c">>)),
     WithField(FullContact, "notes", Str(<<"\"", "n", "\"">>)),
     WithField(FullContact, "role", Str(<<>>)),
     WithField(FullContact, "notes", Str(<<>>)),
     WithField(FullContact, "tags", Arr(<<>>)),
     WithField(FullContact, "tags", Arr(<<Str(<<"t">>)>>)),
     WithoutField(FullContact, "phone"),
     WithoutField(FullContact, "rate"),
     WithoutField(FullContact, "lastContactDate"),
     WithoutField(WithoutField(FullContact, "lastContactDate"), "nextFollowUpDate")}

ContactLists(n) == UNION {[1..m -> CsvContacts] : m \in 0..n}

CsvInit ==
    /\ CtlInit /\ EnvInit /\ ValOff /\ FileOff /\ hasFilePicker = TRUE
    /\ csvIn \in ContactLists(MaxCsvContacts)
    /\ csvContent = <<>>
    /\ csvOut = Undefined
    /\ csvPc = "contacts"

\* SettingsModal.handleExport: exportToCSV(clients)
Export ==
    /\ csvPc = "contacts"
    /\ csvContent' = exportToCSV(csvIn)
    /\ csvPc' = "exported"
    /\ UNCHANGED <<ctlVars, disk, slot, saves, now, valVars, fileVars, csvIn, csvOut>>

\* SettingsModal.handleFileChange: parseCSV(text) on the exported file
Import ==
    /\ csvPc = "exported"
    /\ csvOut' = parseCSV(csvContent, 0)
    /\ csvPc' = "imported"
    /\ UNCHANGED <<ctlVars, disk, slot, saves, now, valVars, fileVars, csvIn, csvContent>>

CsvNext == Export \/ Import

SpecCSV == CsvInit /\ [][CsvNext]_vars

\* the text of a string member, empty when the member is absent
TextOf(v) == IF v.t = "str" THEN v.s ELSE <<>>
TagSet(c) == LET tags == Get(c, "tags").a IN {tags[i].s : i \in 1..Len(tags)}
RoundTripFields ==
    {"name", "company", "role", "status", "sector", "email", "phone",
     "location", "rate", "notes"}
SameContact(c, d) ==
    /\ \A k \in RoundTripFields : TextOf(Get(c, k)) = TextOf(Get(d, k))
    /\ TagSet(c) = TagSet(d)

\* C1: parseCSV of the text exportToCSV builds from a contact list returns
\* one contact per input contact, in order, with the same name, company,
\* role, status, sector, email, phone, location, rate, notes and tag set.
C1_CsvRoundTrip ==
    csvPc = "imported" =>
        /\ ~IsThrown(csvOut)
        /\ Len(csvOut.a) = Len(csvIn)
        /\ \A i \in 1..Len(csvIn) : SameContact(csvOut.a[i], csvIn[i])

----------------------------------------------------------------------------
(* storage.ts: openDatabaseFile, createDatabaseFile, saveDatabaseFile *)

\* what the platform answers to a file picker and the read that follows
Dismissed == [kind |-> "dismissed", text |-> <<>>]   \* the user closed the picker
Unreadable == [kind |-> "unreadable", text |-> <<>>] \* getFile()/text() rejected
Picked(text) == [kind |-> "file", text |-> text]

\* openDatabaseFile that answers unparsable text with the default document
openDatabaseFile_lenient(supported, pick, t) ==
    IF ~supported THEN Thrown("Error", "NOT_SUPPORTED")
    ELSE IF pick.kind = "dismissed" THEN Thrown("AbortError", "")
    ELSE IF pick.kind = "unreadable" THEN Thrown("NotReadableError", "")
    ELSE LET json == JSONparse(pick.text) IN
         IF IsThrown(json) THEN validateData(Null, t) ELSE validateData(json, t)

\* openDatabaseFile(): the { data } it resolves to, or the error it rejects with
openDatabaseFile(supported, pick, t) ==
    IF ~supported THEN Thrown("Error", "NOT_SUPPORTED")
    ELSE IF pick.kind = "dismissed" THEN Thrown("AbortError", "")
    ELSE IF pick.kind = "unreadable" THEN Thrown("NotReadableError", "")
    ELSE LET json == JSONparse(pick.text) IN
         IF IsThrown(json) THEN json ELSE validateData(json, t)

\* a call of saveDatabaseFile(handle, data) suspended at an await: pc names
\* the awaited call, swap is what the writable stream holds
SaveCall(data) == [data |-> data, pc |-> "createWritable", swap |-> <<>>]

\* saveDatabaseFile that does not wait for close()
saveDatabaseFile_noClose(call, file, fulfilled) ==
    IF ~fulfilled THEN [call |-> call, file |-> file, outcome |-> "rejected"]
    ELSE IF call.pc = "createWritable"
    THEN [call |-> [call EXCEPT !.pc = "write", !.swap = <<>>],
          file |-> file, outcome |-> "pending"]
    ELSE [call |-> [call EXCEPT !.pc = "close",
                                !.swap = call.swap \o Stringify(call.data, TRUE)],
          file |-> file, outcome |-> "resolved"]

\* saveDatabaseFile with the steps wrapped in a catch that only logs
saveDatabaseFile_swallow(call, file, fulfilled) ==
    IF ~fulfilled THEN [call |-> call, file |-> file, outcome |-> "resolved"]
    ELSE IF call.pc = "createWritable"
    THEN [call |-> [call EXCEPT !.pc = "write", !.swap = <<>>],
          file |-> file, outcome |-> "pending"]
    ELSE IF call.pc = "write"
    THEN [call |-> [call EXCEPT !.pc = "close",
                                !.swap = call.swap \o Stringify(call.data, TRUE)],
          file |-> file, outcome |-> "pending"]
    ELSE [call |-> call, file |-> call.swap, outcome |-> "resolved"]

\* saveDatabaseFile resumed when the promise it awaits settles.  The stream
\* of createWritable() starts empty and collects what write() is given; the
\* file takes the stream's content when close() is fulfilled.  A rejected
\* await rejects the call.
saveDatabaseFile(call, file, fulfilled) ==
    IF ~fulfilled THEN [call |-> call, file |-> file, outcome |-> "rejected"]
    ELSE IF call.pc = "createWritable"
    THEN [call |-> [call EXCEPT !.pc = "write", !.swap = <<>>],
          file |-> file, outcome |-> "pending"]
    ELSE IF call.pc = "write"
    THEN [call |-> [call EXCEPT !.pc = "close",
                                !.swap = call.swap \o Stringify(call.data, TRUE)],
          file |-> file, outcome |-> "pending"]
    ELSE [call |-> call, file |-> call.swap, outcome |-> "resolved"]

----------------------------------------------------------------------------
(* saveDatabaseFile followed by openDatabaseFile on one handle *)

MaxFileClients == 2   \* contacts in a saved document

\* a contact as ClientModal.handleSubmit builds it, with a log
FormClient ==
    Obj([id |-> Str(<<"2">>), name |-> Str(<<"a", " ", "b">>), company |-> Str(<<"c">>),
         role |-> Str(<<>>), email |-> Str(<<>>), phone |-> Str(<<>>),
         sector |-> Str(IndustrySector["OTHER"]),
         status |-> Str(ClientStatus["NEW"]),
         statusUpdatedAt |-> Str(ISOString(1)),
         continent |-> Str(Continent["EUROPE"]), location |-> Str(<<>>),
         lat |-> Undefined, lng |-> Num(3), website |-> Str(<<>>),
         rate |-> Str(<<>>), notes |-> Str(<<"\"", "\\", "\n", ",">>),
         tags |-> Arr(<<Str(<<"t">>), Str(<<>>)>>),
         logs |-> Arr(<<Obj([id |-> Str(<<"l">>), date |-> Str(ISOString(1)),
                             type |-> Str(<<"C", "a", "l", "l">>), notes |-> Str(<<"n">>)])>>),
         lastContactDate |-> Str(ISOString(1)),
         nextFollowUpDate |-> Undefined])

FileClients == {SampleClient, FullContact, FormClient, WithField(FormClient, "lat", Num(0))}
FileProfiles ==
    {Null, SampleProfile, Obj([name |-> Str(<<>>), industry |-> Str(<<>>)])}
FileDocuments ==
    {AppData(Arr(cs), pr, Str(ISOString(0))) :
        cs \in UNION {[1..m -> FileClients] : m \in 0..MaxFileClients},
        pr \in FileProfiles}

\* what the file held before the save
PreviousTexts ==
    {<<>>, Stringify(AppData(Arr(<<SampleClient>>), Null, Str(ISOString(0))), TRUE)}

FileInit ==
    /\ CtlInit /\ ValOff /\ CsvOff /\ hasFilePicker = TRUE
    /\ slot = NoItem /\ now = 0
    /\ fDoc \in FileDocuments
    /\ fPrev \in PreviousTexts
    /\ disk = fPrev
    /\ saves = <<SaveCall(fDoc)>>
    /\ fPc = "pending"
    /\ fFailed = FALSE
    /\ fOut = Undefined

\* the promise saveDatabaseFile awaits settles
FileSettle ==
    /\ fPc = "pending"
    /\ \E fulfilled \in BOOLEAN :
          LET r == saveDatabaseFile(saves[1], disk, fulfilled) IN
             /\ saves' = <<r.call>>
             /\ disk' = r.file
             /\ fPc' = r.outcome
             /\ fFailed' = ~fulfilled
    /\ UNCHANGED <<ctlVars, slot, now, valVars, fDoc, fPrev, fOut, csvVars>>

\* the file is read back through the handle, at any moment; at keeps the
\* state of the save at that moment
FileOpen ==
    /\ fPc # "off"
    /\ fOut = Undefined
    /\ fOut' = [at |-> fPc, data |-> openDatabaseFile(TRUE, Picked(disk), now)]
    /\ UNCHANGED <<ctlVars, disk, slot, saves, now, valVars,
                   fDoc, fPrev, fPc, fFailed, csvVars>>

FileTick ==
    /\ fPc # "off"
    /\ fOut = Undefined
    /\ now < MaxTime
    /\ now' = now + 1
    /\ UNCHANGED <<ctlVars, disk, slot, saves, valVars, fileVars, csvVars>>

FileNext == FileSettle \/ FileOpen \/ FileTick

SpecFile == FileInit /\ [][FileNext]_vars

RECURSIVE DeepEq(_, _)
\* equal member for member; a member left out equals an undefined one
DeepEq(a, b) ==
    IF a.t # b.t THEN FALSE
    ELSE IF a.t = "arr"
    THEN Len(a.a) = Len(b.a) /\ \A i \in 1..Len(a.a) : DeepEq(a.a[i], b.a[i])
    ELSE IF a.t = "obj"
    THEN \A k \in (DOMAIN a.o) \cup (DOMAIN b.o) : DeepEq(Get(a, k), Get(b, k))
    ELSE a = b

C5_SaveAtomic ==
    fPc # "off" =>
        /\ disk \in {fPrev, Stringify(fDoc, TRUE)}
        /\ fPc = "resolved" => disk = Stringify(fDoc, TRUE)
        /\ fFailed => fPc = "rejected"
        /\ fOut # Undefined =>
              fOut.data \in {openDatabaseFile(TRUE, Picked(fPrev), now),
                             openDatabaseFile(TRUE, Picked(Stringify(fDoc, TRUE)), now)}

C5_Witness ==
    /\ fPc = "rejected"
    /\ saves[1].pc = "close"
    /\ fPrev # <<>>
    /\ disk = fPrev
    /\ fOut # Undefined /\ fOut.at = "rejected"

----------------------------------------------------------------------------
(* storage.ts: createDatabaseFile, lines 119-126, resumed at each await *)

createDatabaseFile(call, file, fulfilled) ==
    IF ~fulfilled THEN [call |-> call, file |-> file, outcome |-> "rejected"]
    ELSE IF call.pc = "createWritable"
    THEN [call |-> [call EXCEPT !.pc = "write", !.swap = <<>>],
          file |-> file, outcome |-> "pending"]
    ELSE IF call.pc = "write"
    THEN [call |-> [call EXCEPT !.pc = "close",
                                !.swap = call.swap \o Stringify(call.data, TRUE)],
          file |-> file, outcome |-> "pending"]
    ELSE [call |-> call, file |-> call.swap, outcome |-> "resolved"]

----------------------------------------------------------------------------
(* App: inputs of the controller *)

TheHandle == "handle"
LOCAL_FULL_MSG == "Warning: Local storage full. Some data may not be saved."
SAVE_FAILED_MSG == "Failed to save changes."
IMPORT_OK_MSG == "Import successful!"
IMPORT_EMPTY_MSG == "No valid clients found. Please check the CSV format."
IMPORT_FAILED_MSG == "Failed to parse file. Please ensure it is a valid CSV."

SavedDocument == AppData(Arr(<<SampleClient>>), SampleProfile, Str(ISOString(0)))

\* files the user can pick in the open dialog
OpenableTexts ==
    {Stringify(SavedDocument, TRUE),
     Stringify(AppData(Arr(<<>>), Null, Str(ISOString(0))), TRUE),
     Stringify(DocOf(Arr(<<SampleClient>>), Str(<<"a">>), Undefined), TRUE),
     Stringify(Null, TRUE),
     Stringify(Obj([clients |-> Str(<<"a">>)]), TRUE),
     SubSeq(Stringify(SavedDocument, TRUE), 1, 9),
     <<>>}

\* what the slot holds when the application starts
InitialSlots ==
    {NoItem, Item(Stringify(SavedDocument, FALSE)),
     Item(SubSeq(Stringify(SavedDocument, FALSE), 1, 5))}

\* ClientModal: the form data when the form is submitted.  Opened by 'add
\* contact' (client is null) the form starts from the defaults of
\* part_001:37-44; opened on a contact it starts from a copy of the contact.
\* The user then types a name (and a company for a new contact).
FormData(client) ==
    IF client = Null
    THEN {Obj([status |-> Str(ClientStatus["NEW"]),
               sector |-> Str(IndustrySector["OTHER"]),
               continent |-> Str(Continent["NORTH_AMERICA"]),
               tags |-> Arr(<<>>), logs |-> Arr(<<>>), notes |-> Str(<<>>),
               name |-> Str(<<"n">>), company |-> Str(<<"c">>)])}
    ELSE {WithField(client, "name", Str(<<"z">>))}

\* ClientModal.handleSubmit: the newClient handed to onSave, or Undefined
\* when the form lacks a name or a company; n numbers the identifier it mints
handleSubmit(client, formData, n, t) ==
    IF ~Truthy(Get(formData, "name")) \/ ~Truthy(Get(formData, "company")) THEN Undefined
    ELSE LET isStatusChanged ==
                 ~Truthy(client) \/ Get(client, "status") # Get(formData, "status")
             updatedTimestamp ==
                 IF isStatusChanged THEN Str(ISOString(t))
                 ELSE OrElse(Get(client, "statusUpdatedAt"), Str(ISOString(t)))
         IN Obj([id |-> OrElse(Get(formData, "id"), randomUUID(n)),
                 name |-> Get(formData, "name"),
                 company |-> Get(formData, "company"),
                 role |-> OrElse(Get(formData, "role"), Str(<<>>)),
                 email |-> OrElse(Get(formData, "email"), Str(<<>>)),
                 phone |-> OrElse(Get(formData, "phone"), Str(<<>>)),
                 sector |-> OrElse(Get(formData, "sector"), Str(IndustrySector["OTHER"])),
                 status |-> OrElse(Get(formData, "status"), Str(ClientStatus["NEW"])),
                 statusUpdatedAt |-> updatedTimestamp,
                 continent |-> OrElse(Get(formData, "continent"), Str(Continent["NORTH_AMERICA"])),
                 location |-> OrElse(Get(formData, "location"), Str(<<>>)),
                 lat |-> Get(formData, "lat"),
                 lng |-> Get(formData, "lng"),
                 website |-> OrElse(Get(formData, "website"), Str(<<>>)),
                 rate |-> OrElse(Get(formData, "rate"), Str(<<>>)),
                 notes |-> OrElse(Get(formData, "notes"), Str(<<>>)),
                 tags |-> OrElse(Get(formData, "tags"), Arr(<<>>)),
                 logs |-> OrElse(Get(formData, "logs"), Arr(<<>>)),
                 lastContactDate |-> Get(formData, "lastContactDate"),
                 nextFollowUpDate |-> Get(formData, "nextFollowUpDate")])
FormProfiles == {SampleProfile}
\* CSV files the user can import
ImportTexts ==
    {exportToCSV(<<FullContact>>),
     join(<<<<"N", "a", "m", "e", ",", "S", "t", "a", "t", "u", "s", ",", "S", "e", "c", "t", "o", "r">>, <<"x", ",", "F", "o", "o", ",", "B", "a", "r">>>>, <<"\n">>)}

harnessVars == <<valVars, fileVars, csvVars>>
StartupIdle == openFlow.pc = "idle" /\ createFlow.pc = "idle"
\* the i-th saveData call of the log has run to its end
Finished(q, i) == [q EXCEPT ![i] = [data |-> Null, pc |-> "done", swap |-> <<>>]]
Writing(call) == call.pc \in {"createWritable", "write", "close"}

----------------------------------------------------------------------------
(* App: start-up handlers (part_005:144-194) *)

\* the catch block of handleOpenFile and handleCreateFile: the fsError it
\* leaves, given the message shown before and the handler's own message
CatchStartup_noAbortTest(e, failedMsg, current) ==
    IF e.message = "NOT_SUPPORTED" THEN NOT_SUPPORTED_MSG ELSE failedMsg

CatchStartup(e, failedMsg, current) ==
    IF e.message = "NOT_SUPPORTED" THEN NOT_SUPPORTED_MSG
    ELSE IF e.name # "AbortError" THEN failedMsg
    ELSE current

\* handleUseLocalStorage that writes the slot whatever it loaded
HandleUseLocalStorage_alwaysWrites ==
    /\ ~isFileLoaded /\ StartupIdle
    /\ \E accepts \in BOOLEAN :
          LET r == loadFromLocalStorage(slot, now)
              seeded == ~Truthy(r.ret)
              data == IF seeded THEN createNewDatabase(now) ELSE r.ret
              w == saveToLocalStorage(r.slot, data, accepts)
          IN /\ slot' = w.slot
             /\ alerts' = IF w.alert THEN alerts \cup {LOCAL_FULL_MSG} ELSE alerts
             /\ clients' = Get(data, "clients").a
             /\ userProfile' = Get(data, "profile")
             /\ isSettingsOpen' =
                   IF ~Truthy(Get(data, "profile")) THEN TRUE ELSE isSettingsOpen
    /\ fsError' = NoError
    /\ storageMode' = "LOCAL"
    /\ isFileLoaded' = TRUE
    /\ caught' = NothingCaught
    /\ UNCHANGED <<fileHandle, isSaving, disk, saves, openFlow, createFlow,
                   lastSave, minted, now, hasFilePicker, harnessVars>>

\* handleUseLocalStorage
HandleUseLocalStorage ==
    /\ ~isFileLoaded /\ StartupIdle
    /\ \E accepts \in BOOLEAN :
          LET r == loadFromLocalStorage(slot, now)
              seeded == ~Truthy(r.ret)
              data == IF seeded THEN createNewDatabase(now) ELSE r.ret
              w == IF seeded THEN saveToLocalStorage(r.slot, data, accepts)
                   ELSE [ret |-> Undefined, slot |-> r.slot, alert |-> FALSE]
          IN /\ slot' = w.slot
             /\ alerts' = IF w.alert THEN alerts \cup {LOCAL_FULL_MSG} ELSE alerts
             /\ clients' = Get(data, "clients").a
             /\ userProfile' = Get(data, "profile")
             /\ isSettingsOpen' =
                   IF ~Truthy(Get(data, "profile")) THEN TRUE ELSE isSettingsOpen
    /\ fsError' = NoError
    /\ storageMode' = "LOCAL"
    /\ isFileLoaded' = TRUE
    /\ caught' = NothingCaught
    /\ UNCHANGED <<fileHandle, isSaving, disk, saves, openFlow, createFlow,
                   lastSave, minted, now, hasFilePicker, harnessVars>>

\* handleOpenFile up to its await of the picker
HandleOpenFile ==
    /\ ~isFileLoaded /\ StartupIdle
    /\ IF hasFilePicker
       THEN /\ fsError' = NoError
            /\ openFlow' = [pc |-> "picking"]
            /\ caught' = NothingCaught
       ELSE LET e == openDatabaseFile(FALSE, Dismissed, now) IN
            /\ fsError' = CatchStartup(e, OPEN_FAILED_MSG, NoError)
            /\ caught' = [by |-> "handleOpenFile", e |-> e]
            /\ openFlow' = openFlow
    /\ UNCHANGED <<fileHandle, storageMode, isFileLoaded, isSaving, clients,
                   userProfile, isSettingsOpen, disk, slot, saves, createFlow,
                   alerts, lastSave, minted, now, hasFilePicker, harnessVars>>

\* the picker settles: dismissed, or a file is chosen and its read begins
HandleOpenFile_Picked ==
    /\ openFlow.pc = "picking"
    /\ \/ LET e == openDatabaseFile(TRUE, Dismissed, now) IN
          /\ fsError' = CatchStartup(e, OPEN_FAILED_MSG, fsError)
          /\ caught' = [by |-> "handleOpenFile", e |-> e]
          /\ openFlow' = Idle
       \/ /\ \E text \in OpenableTexts : openFlow' = [pc |-> "reading", text |-> text]
          /\ UNCHANGED <<fsError, caught>>
    /\ UNCHANGED <<fileHandle, storageMode, isFileLoaded, isSaving, clients,
                   userProfile, isSettingsOpen, disk, slot, saves, createFlow,
                   alerts, lastSave, minted, now, hasFilePicker, harnessVars>>

\* getFile()/text() settle and the rest of handleOpenFile runs
HandleOpenFile_Read ==
    /\ openFlow.pc = "reading"
    /\ \E pick \in {Unreadable, Picked(openFlow.text)} :
          LET r == openDatabaseFile(TRUE, pick, now) IN
          IF IsThrown(r)
          THEN /\ fsError' = CatchStartup(r, OPEN_FAILED_MSG, fsError)
               /\ caught' = [by |-> "handleOpenFile", e |-> r]
               /\ UNCHANGED <<clients, userProfile, fileHandle, storageMode,
                              isFileLoaded, isSettingsOpen, disk>>
          ELSE /\ clients' = Get(r, "clients").a
               /\ userProfile' = Get(r, "profile")
               /\ fileHandle' = TheHandle
               /\ storageMode' = "FILE"
               /\ isFileLoaded' = TRUE
               /\ isSettingsOpen' =
                     IF ~Truthy(Get(r, "profile")) THEN TRUE ELSE isSettingsOpen
               /\ disk' = openFlow.text
               /\ UNCHANGED <<fsError, caught>>
    /\ openFlow' = Idle
    /\ UNCHANGED <<isSaving, slot, saves, createFlow, alerts, lastSave, minted,
                   now, hasFilePicker, harnessVars>>

\* handleCreateFile up to its await of the picker
HandleCreateFile ==
    /\ ~isFileLoaded /\ StartupIdle
    /\ IF hasFilePicker
       THEN /\ fsError' = NoError
            /\ createFlow' = [pc |-> "picking"]
            /\ caught' = NothingCaught
       ELSE LET e == Thrown("Error", "NOT_SUPPORTED") IN
            /\ fsError' = CatchStartup(e, CREATE_FAILED_MSG, NoError)
            /\ caught' = [by |-> "handleCreateFile", e |-> e]
            /\ createFlow' = createFlow
    /\ UNCHANGED <<fileHandle, storageMode, isFileLoaded, isSaving, clients,
                   userProfile, isSettingsOpen, disk, slot, saves, openFlow,
                   alerts, lastSave, minted, now, hasFilePicker, harnessVars>>

\* the save picker settles: dismissed, or a new file is chosen and
\* createDatabaseFile goes on to write the new database into it
HandleCreateFile_Picked ==
    /\ createFlow.pc = "picking"
    /\ \/ LET e == Thrown("AbortError", "") IN
          /\ fsError' = CatchStartup(e, CREATE_FAILED_MSG, fsError)
          /\ caught' = [by |-> "handleCreateFile", e |-> e]
          /\ createFlow' = Idle
          /\ disk' = disk
       \/ /\ createFlow' = [pc |-> "writing", call |-> SaveCall(createNewDatabase(now))]
          /\ disk' = <<>>
          /\ UNCHANGED <<fsError, caught>>
    /\ UNCHANGED <<fileHandle, storageMode, isFileLoaded, isSaving, clients,
                   userProfile, isSettingsOpen, slot, saves, openFlow,
                   alerts, lastSave, minted, now, hasFilePicker, harnessVars>>

\* an await of createDatabaseFile settles; after the last one the rest of
\* handleCreateFile runs
HandleCreateFile_Written ==
    /\ createFlow.pc = "writing"
    /\ \E fulfilled \in BOOLEAN :
          LET r == createDatabaseFile(createFlow.call, disk, fulfilled) IN
          CASE r.outcome = "pending" ->
                  /\ createFlow' = [createFlow EXCEPT !.call = r.call]
                  /\ UNCHANGED <<clients, userProfile, fileHandle, storageMode,
                                 isFileLoaded, isSettingsOpen, disk, fsError, caught>>
            [] r.outcome = "rejected" ->
                  LET e == Thrown("NotAllowedError", "") IN
                  /\ fsError' = CatchStartup(e, CREATE_FAILED_MSG, fsError)
                  /\ caught' = [by |-> "handleCreateFile", e |-> e]
                  /\ createFlow' = Idle
                  /\ UNCHANGED <<clients, userProfile, fileHandle, storageMode,
                                 isFileLoaded, isSettingsOpen, disk>>
            [] r.outcome = "resolved" ->
                  /\ disk' = r.file
                  /\ clients' = Get(r.call.data, "clients").a
                  /\ userProfile' = Get(r.call.data, "profile")
                  /\ fileHandle' = TheHandle
                  /\ storageMode' = "FILE"
                  /\ isFileLoaded' = TRUE
                  /\ isSettingsOpen' = TRUE
                  /\ createFlow' = Idle
                  /\ UNCHANGED <<fsError, caught>>
    /\ UNCHANGED <<isSaving, slot, saves, openFlow, alerts, lastSave, minted,
                   now, hasFilePicker, harnessVars>>

----------------------------------------------------------------------------
(* App: saveData and the handlers that call it (part_005:196-255) *)

\* saveData(newClients, newProfile) up to its first await, together with the
\* alerts (shown) that its caller raises in the same task.  In LOCAL mode the
\* storage call is synchronous; in FILE mode the write is left in flight.
SaveDataThen(newClients, newProfile, shown) ==
    LET data == AppData(Arr(newClients), newProfile, Str(ISOString(now))) IN
    IF storageMode = "FILE" /\ fileHandle # NoHandle
    THEN /\ saves' = Append(saves, SaveCall(data))
         /\ isSaving' = TRUE
         /\ alerts' = alerts \cup shown
         /\ UNCHANGED <<slot, lastSave>>
    ELSE IF storageMode = "LOCAL"
    THEN \E accepts \in BOOLEAN :
            LET w == saveToLocalStorage(slot, data, accepts) IN
            /\ slot' = w.slot
            /\ lastSave' = [called |-> TRUE, rejected |-> ~accepts,
                            threw |-> IsThrown(w.ret)]
            /\ IF IsThrown(w.ret)
               THEN /\ alerts' = alerts \cup {SAVE_FAILED_MSG} \cup shown
                    /\ isSaving' = FALSE
                    /\ saves' = saves
               ELSE /\ alerts' = (IF w.alert THEN alerts \cup {LOCAL_FULL_MSG}
                                  ELSE alerts) \cup shown
                    /\ isSaving' = TRUE
                    /\ saves' = Append(saves, [data |-> data, pc |-> "delay",
                                               swap |-> <<>>])
    ELSE /\ isSaving' = FALSE
         /\ alerts' = alerts \cup shown
         /\ UNCHANGED <<slot, lastSave, saves>>

\* saveData(newClients, newProfile) called by a handler that shows nothing
SaveData(newClients, newProfile) == SaveDataThen(newClients, newProfile, {})

\* an await of saveDatabaseFile settles for the i-th call in flight; after
\* the last one, or a rejection, the catch/finally of saveData runs
SaveData_Settled(i) ==
    /\ i \in 1..Len(saves)
    /\ Writing(saves[i])
    /\ \E fulfilled \in BOOLEAN :
          LET r == saveDatabaseFile(saves[i], disk, fulfilled) IN
          CASE r.outcome = "pending" ->
                  /\ saves' = [saves EXCEPT ![i] = r.call]
                  /\ UNCHANGED <<disk, isSaving, alerts>>
            [] r.outcome = "resolved" ->
                  /\ saves' = Finished(saves, i)
                  /\ disk' = r.file
                  /\ isSaving' = FALSE
                  /\ alerts' = alerts
            [] r.outcome = "rejected" ->
                  /\ saves' = Finished(saves, i)
                  /\ disk' = disk
                  /\ isSaving' = FALSE
                  /\ alerts' = alerts \cup {SAVE_FAILED_MSG}
    /\ UNCHANGED <<fileHandle, storageMode, isFileLoaded, fsError, clients,
                   userProfile, isSettingsOpen, slot, openFlow, createFlow,
                   caught, lastSave, minted, now, hasFilePicker, harnessVars>>

\* the 500 ms timer of the oldest LOCAL-mode saveData fires
SaveData_TimerFired ==
    /\ \E i \in 1..Len(saves) :
          /\ saves[i].pc = "delay"
          /\ \A j \in 1..(i - 1) : saves[j].pc # "delay"
          /\ saves' = Finished(saves, i)
    /\ isSaving' = FALSE
    /\ UNCHANGED <<fileHandle, storageMode, isFileLoaded, fsError, clients,
                   userProfile, isSettingsOpen, disk, slot, openFlow, createFlow,
                   alerts, caught, lastSave, minted, now, hasFilePicker,
                   harnessVars>>

CanSave == isFileLoaded /\ Len(saves) < MaxSaves

\* handleSaveClient that drops the contact of that id and puts the saved one last
HandleSaveClient_moveToEnd(client) ==
    /\ CanSave
    /\ LET updatedClients ==
               Append(SelectSeq(clients, LAMBDA c : Get(c, "id") # Get(client, "id")), client)
       IN /\ Len(updatedClients) <= MaxClients
          /\ clients' = updatedClients
          /\ SaveData(updatedClients, userProfile)
    /\ UNCHANGED <<fileHandle, storageMode, isFileLoaded, fsError, userProfile,
                   isSettingsOpen, disk, openFlow, createFlow, caught,
                   now, hasFilePicker, harnessVars>>

\* handleSaveClient without the test for an existing id
HandleSaveClient_alwaysAppend(client) ==
    /\ CanSave
    /\ LET updatedClients == Append(clients, client)
       IN /\ Len(updatedClients) <= MaxClients
          /\ clients' = updatedClients
          /\ SaveData(updatedClients, userProfile)
    /\ UNCHANGED <<fileHandle, storageMode, isFileLoaded, fsError, userProfile,
                   isSettingsOpen, disk, openFlow, createFlow, caught,
                   now, hasFilePicker, harnessVars>>

HandleSaveClient(client) ==
    /\ CanSave
    /\ LET exists == \E i \in 1..Len(clients) : Get(clients[i], "id") = Get(client, "id")
           updatedClients ==
               IF exists
               THEN [i \in 1..Len(clients) |->
                        IF Get(clients[i], "id") = Get(client, "id") THEN client
                        ELSE clients[i]]
               ELSE Append(clients, client)
       IN /\ Len(updatedClients) <= MaxClients
          /\ clients' = updatedClients
          /\ SaveData(updatedClients, userProfile)
    /\ UNCHANGED <<fileHandle, storageMode, isFileLoaded, fsError, userProfile,
                   isSettingsOpen, disk, openFlow, createFlow, caught,
                   now, hasFilePicker, harnessVars>>

\* the contact form, opened on clients[selected] or, with selected = 0, by
\* 'add contact', is submitted: handleSubmit builds the contact and calls
\* onSave, which is handleSaveClient
ClientModalSubmit(selected) ==
    /\ selected \in 0..Len(clients)
    /\ LET client == IF selected = 0 THEN Null ELSE clients[selected] IN
       \E formData \in FormData(client) :
          LET newClient == handleSubmit(client, formData, minted, now)
              mints == ~Truthy(Get(formData, "id"))
          IN /\ newClient # Undefined
             /\ mints => minted < MaxIds
             /\ minted' = IF mints THEN minted + 1 ELSE minted
             /\ HandleSaveClient(newClient)

\* handleDeleteClient that does not ask
HandleDeleteClient_noConfirm(id, confirmed) ==
    /\ CanSave
    /\ \E i \in 1..Len(clients) : Get(clients[i], "id") = id
    /\ LET updatedClients == SelectSeq(clients, LAMBDA c : Get(c, "id") # id) IN
       /\ clients' = updatedClients
       /\ SaveData(updatedClients, userProfile)
    /\ UNCHANGED <<fileHandle, storageMode, isFileLoaded, fsError, userProfile,
                   isSettingsOpen, disk, openFlow, createFlow, caught, minted,
                   now, hasFilePicker, harnessVars>>

\* handleDeleteClient(e, id); confirmed is the answer to window.confirm
HandleDeleteClient(id, confirmed) ==
    /\ CanSave
    /\ \E i \in 1..Len(clients) : Get(clients[i], "id") = id
    /\ IF confirmed
       THEN LET updatedClients == SelectSeq(clients, LAMBDA c : Get(c, "id") # id) IN
            /\ clients' = updatedClients
            /\ SaveData(updatedClients, userProfile)
       ELSE UNCHANGED <<clients, saves, isSaving, slot, alerts, lastSave>>
    /\ UNCHANGED <<fileHandle, storageMode, isFileLoaded, fsError, userProfile,
                   isSettingsOpen, disk, openFlow, createFlow, caught, minted,
                   now, hasFilePicker, harnessVars>>

\* the delete button of the card of clients[i]: onDelete(client.id), which is
\* handleDeleteClient; confirmed is the answer to window.confirm
ClientCardDelete(i, confirmed) ==
    /\ i \in 1..Len(clients)
    /\ HandleDeleteClient(Get(clients[i], "id"), confirmed)

\* SettingsModal.handleSubmit: onSave(profile), which is handleSaveProfile,
\* and then onClose()
HandleSaveProfile(profile) ==
    /\ CanSave /\ isSettingsOpen
    /\ userProfile' = profile
    /\ SaveData(clients, profile)
    /\ isSettingsOpen' = FALSE
    /\ UNCHANGED <<fileHandle, storageMode, isFileLoaded, fsError, clients,
                   disk, openFlow, createFlow, caught, minted, now,
                   hasFilePicker, harnessVars>>

\* handleImportClients that puts the imported contacts first
HandleImportClients_prepend(newClients, shown) ==
    /\ clients' = newClients \o clients
    /\ SaveDataThen(newClients \o clients, userProfile, shown)

\* handleImportClients(newClients), called by SettingsModal.handleFileChange,
\* which shows the alerts (shown) when it returns
HandleImportClients(newClients, shown) ==
    /\ clients' = clients \o newClients
    /\ SaveDataThen(clients \o newClients, userProfile, shown)

\* handleFileChange without the test importedClients.length > 0
HandleFileChange_noLengthTest(csvText, confirmed) ==
    /\ CanSave /\ isSettingsOpen
    /\ LET importedClients == parseCSV(csvText, minted) IN
       IF IsThrown(importedClients)
       THEN /\ alerts' = alerts \cup {IMPORT_FAILED_MSG}
            /\ UNCHANGED <<clients, minted, slot, saves, isSaving, lastSave>>
       ELSE IF TRUE
       THEN /\ Len(clients) + Len(importedClients.a) <= MaxClients
            /\ minted + Len(importedClients.a) <= MaxIds
            /\ minted' = minted + Len(importedClients.a)
            /\ IF confirmed
               THEN HandleImportClients(importedClients.a, {IMPORT_OK_MSG})
               ELSE UNCHANGED <<clients, alerts, slot, saves, isSaving, lastSave>>
       ELSE /\ alerts' = alerts \cup {IMPORT_EMPTY_MSG}
            /\ UNCHANGED <<clients, minted, slot, saves, isSaving, lastSave>>
    /\ UNCHANGED <<fileHandle, storageMode, isFileLoaded, fsError, userProfile,
                   isSettingsOpen, disk, openFlow, createFlow, caught, now,
                   hasFilePicker, harnessVars>>

\* SettingsModal.handleFileChange once file.text() has resolved with csvText;
\* confirmed is the answer to window.confirm.  parseCSV mints an id per
\* contact whether or not the import is then confirmed.
HandleFileChange(csvText, confirmed) ==
    /\ CanSave /\ isSettingsOpen
    /\ LET importedClients == parseCSV(csvText, minted) IN
       IF IsThrown(importedClients)
       THEN /\ alerts' = alerts \cup {IMPORT_FAILED_MSG}
            /\ UNCHANGED <<clients, minted, slot, saves, isSaving, lastSave>>
       ELSE IF Len(importedClients.a) > 0
       THEN /\ Len(clients) + Len(importedClients.a) <= MaxClients
            /\ minted + Len(importedClients.a) <= MaxIds
            /\ minted' = minted + Len(importedClients.a)
            /\ IF confirmed
               THEN HandleImportClients(importedClients.a, {IMPORT_OK_MSG})
               ELSE UNCHANGED <<clients, alerts, slot, saves, isSaving, lastSave>>
       ELSE /\ alerts' = alerts \cup {IMPORT_EMPTY_MSG}
            /\ UNCHANGED <<clients, minted, slot, saves, isSaving, lastSave>>
    /\ UNCHANGED <<fileHandle, storageMode, isFileLoaded, fsError, userProfile,
                   isSettingsOpen, disk, openFlow, createFlow, caught, now,
                   hasFilePicker, harnessVars>>

\* the settings button and the modal's onClose (part_005:545-552)
ToggleSettings ==
    /\ isFileLoaded
    /\ isSettingsOpen' = ~isSettingsOpen
    /\ UNCHANGED <<fileHandle, storageMode, isFileLoaded, fsError, isSaving,
                   clients, userProfile, disk, slot, saves, openFlow, createFlow,
                   alerts, caught, lastSave, minted, now, hasFilePicker,
                   harnessVars>>

Tick ==
    /\ now < MaxClock
    /\ now' = now + 1
    /\ UNCHANGED <<ctlVars, disk, slot, saves, harnessVars>>

Init ==
    /\ CtlInit
    /\ hasFilePicker \in BOOLEAN
    /\ disk = <<>>
    /\ slot \in InitialSlots
    /\ saves = <<>>
    /\ now = 0
    /\ ValOff /\ FileOff /\ CsvOff

Next ==
    \/ HandleUseLocalStorage
    \/ HandleOpenFile
    \/ HandleOpenFile_Picked
    \/ HandleOpenFile_Read
    \/ HandleCreateFile
    \/ HandleCreateFile_Picked
    \/ HandleCreateFile_Written
    \/ \E selected \in 0..MaxClients : ClientModalSubmit(selected)
    \/ \E i \in 1..MaxClients, confirmed \in BOOLEAN : ClientCardDelete(i, confirmed)
    \/ \E profile \in FormProfiles : HandleSaveProfile(profile)
    \/ \E csvText \in ImportTexts : HandleFileChange(csvText, TRUE)
    \/ \E i \in 1..MaxSaves : SaveData_Settled(i)
    \/ SaveData_TimerFired
    \/ ToggleSettings
    \/ Tick

Spec == Init /\ [][Next]_vars

----------------------------------------------------------------------------
(* Properties of the controller *)

\* C6: at no moment are two saveDatabaseFile calls on the file handle in
\* flight together.
C6_OneSaveInFlight ==
    Cardinality({i \in 1..Len(saves) : Writing(saves[i])}) <= 1

\* C7: a write the key-value store rejected makes saveToLocalStorage throw
\* to saveData.
C7_RejectedWriteSurfaced ==
    lastSave.rejected => lastSave.threw

\* C8: when the text read from the opened file is not JSON,
\* openDatabaseFile rejects, and the step of handleOpenFile that receives
\* the rejection leaves contacts, profile and handle as they were, stays on
\* the start-up screen and sets the file-error message.
C8_CorruptFileRejected ==
    [][(/\ openFlow.pc = "reading"
        /\ openFlow'.pc = "idle"
        /\ IsThrown(JSONparse(openFlow.text)))
       => /\ IsThrown(openDatabaseFile(TRUE, Picked(openFlow.text), now))
          /\ caught'.by = "handleOpenFile"
          /\ IsThrown(caught'.e)
          /\ UNCHANGED <<clients, userProfile, fileHandle>>
          /\ ~isFileLoaded'
          /\ fsError' = OPEN_FAILED_MSG]_vars

C8_Witness ==
    /\ caught.by = "handleOpenFile"
    /\ caught.e.name = "SyntaxError"
    /\ openFlow.pc = "idle"
    /\ fsError = OPEN_FAILED_MSG
    /\ ~isFileLoaded
    /\ fileHandle = NoHandle

\* C9: after handleOpenFile or handleCreateFile has failed, the error message
\* is empty when the picker was dismissed, the 'not supported' message when
\* the platform has no file picker, and the handler's 'failed' message
\* otherwise; the application is not loaded and holds no handle.
C9_StartupOutcomes ==
    caught.by \in {"handleOpenFile", "handleCreateFile"} =>
        /\ ~isFileLoaded
        /\ fileHandle = NoHandle
        /\ fsError =
              IF caught.e.name = "AbortError" THEN NoError
              ELSE IF ~hasFilePicker THEN NOT_SUPPORTED_MSG
              ELSE IF caught.by = "handleOpenFile" THEN OPEN_FAILED_MSG
              ELSE CREATE_FAILED_MSG
        /\ (~hasFilePicker) <=> (caught.e.message = "NOT_SUPPORTED")

C9_Witness ==
    /\ caught.by = "handleCreateFile"
    /\ caught.e.name = "AbortError"
    /\ createFlow.pc = "idle"
    /\ fsError = NoError
    /\ ~isFileLoaded

----------------------------------------------------------------------------
(* esc on a list of values, joined with commas, then splitCSVLine *)

MaxFields == 2   \* values in a row

\* values of one cell, without line breaks
FieldValues ==
    {<<>>, <<"a">>, <<"F", "o", "o", ",", " ", "I", "n", "c", ".">>, <<"a", "\"", "b">>, <<"\"">>, <<" ", "a">>}

LineInit ==
    /\ CtlInit /\ EnvInit /\ ValOff /\ FileOff /\ hasFilePicker = TRUE
    /\ csvIn \in UNION {[1..m -> FieldValues] : m \in 1..MaxFields}
    /\ csvContent = <<>>
    /\ csvOut = Undefined
    /\ csvPc = "fields"

\* row.join(',') of the escaped values (storage.ts:169)
QuoteRow ==
    /\ csvPc = "fields"
    /\ csvContent' = join([i \in 1..Len(csvIn) |-> esc(Str(csvIn[i]))], <<",">>)
    /\ csvPc' = "row"
    /\ UNCHANGED <<ctlVars, disk, slot, saves, now, valVars, fileVars, csvIn, csvOut>>

\* splitCSVLine(line) on that row (storage.ts:219)
SplitRow ==
    /\ csvPc = "row"
    /\ csvOut' = splitCSVLine(csvContent)
    /\ csvPc' = "split"
    /\ UNCHANGED <<ctlVars, disk, slot, saves, now, valVars, fileVars, csvIn, csvContent>>

LineNext == QuoteRow \/ SplitRow

SpecLine == LineInit /\ [][LineNext]_vars

\* C11: splitting the row that esc and join build from a list of values
\* gives back exactly that list of values.
C11_SplitInvertsQuoting ==
    csvPc = "split" => csvOut = csvIn

----------------------------------------------------------------------------
(* parseCSV on CSV files given as tables *)

MaxRows == 2   \* data rows in a CSV file

\* a data row of a CSV file: its cell values, written either each in double
\* quotes as exportToCSV writes them, or bare as a hand-edited sheet has them
CsvFileRow(cells, quoted) == [cells |-> cells, quoted |-> quoted]
Bare(cells) ==
    \A i \in 1..Len(cells) : \A j \in 1..Len(cells[i]) : cells[i][j] \notin {",", "\""}
RowVariants(cellLists) ==
    {CsvFileRow(c, q) : c \in cellLists, q \in {TRUE}}
    \cup {CsvFileRow(c, FALSE) : c \in {x \in cellLists : Bare(x)}}

\* the order in which a sheet has its columns
ColumnOrders == {"standard", "reversed", "rotated", "swapped"}
Permute(s, order) ==
    CASE order = "reversed" -> [i \in 1..Len(s) |-> s[Len(s) + 1 - i]]
      [] order = "rotated" -> [i \in 1..Len(s) |-> s[(i % Len(s)) + 1]]
      [] order = "swapped" /\ Len(s) >= 2 ->
            [i \in 1..Len(s) |-> IF i = 1 THEN s[2] ELSE IF i = 2 THEN s[1] ELSE s[i]]
      [] OTHER -> s

\* the 13 columns of exportToCSV
StandardCells ==
    {<<<<"a">>, <<"b">>, <<"r">>, <<"A", "c", "t", "i", "v", "e">>, <<"A", "n", "i", "m", "a", "t", "i", "o", "n">>, <<"e">>, <<"p">>, <<"l">>,
       <<"2", "/">>, <<"3", "/">>, <<"5">>, <<"n">>, <<"t">>>>,
     <<<<"A", "n", "a", " ", "R", "u", "i", "z">>, <<"F", "o", "o", ",", " ", "I", "n", "c", ".">>, <<"r">>, <<"N", "e", "w">>, <<"O", "t", "h", "e", "r">>, <<"e">>, <<"p">>, <<"l">>,
       <<"2", "/">>, <<"3", "/">>, <<"5">>, <<"n">>, <<"N", "u", "k", "e", ",", " ", "P", "i", "p", "e", "l", "i", "n", "e">>>>}

\* a sheet with five of the columns
ShortHeaders == <<<<"N", "a", "m", "e">>, <<"C", "o", "m", "p", "a", "n", "y">>, <<"S", "t", "a", "t", "u", "s">>, <<"S", "e", "c", "t", "o", "r">>, <<"L", "a", "s", "t", " ", "C", "o", "n", "t", "a", "c", "t">>>>
ShortCells ==
    {<<<<"a">>, <<"b">>, <<"A", "c", "t", "i", "v", "e">>, <<"A", "n", "i", "m", "a", "t", "i", "o", "n">>, <<"2", "/">>>>,
     <<<<>>, <<"b">>, <<"A", "c", "t", "i", "v", "e">>, <<"A", "n", "i", "m", "a", "t", "i", "o", "n">>, <<"2", "/">>>>,
     <<<<" ">>, <<"b">>, <<"A", "c", "t", "i", "v", "e">>, <<"A", "n", "i", "m", "a", "t", "i", "o", "n">>, <<"2", "/">>>>,
     <<<<"x">>>>,
     <<<<"a">>, <<" ">>, <<"F", "o", "o">>, <<"B", "a", "r">>, <<"2", "/">>>>,
     <<<<"a">>, <<>>, <<>>, <<>>, <<"2", "/">>>>,
     <<<<"a">>, <<"b">>, <<"A", "c", "t", "i", "v", "e">>, <<"A", "n", "i", "m", "a", "t", "i", "o", "n">>, <<"x", "y", "z">>>>}

\* sheets whose headers share a keyword
SharedHeaders ==
    {<<<<"C", "o", "m", "p", "a", "n", "y", " ", "N", "a", "m", "e">>, <<"N", "a", "m", "e">>, <<"R", "o", "l", "e">>>>,
     <<<<" ", "F", "u", "l", "l", " ", "N", "A", "M", "E", " ">>, <<"N", "i", "c", "k", "n", "a", "m", "e">>, <<"C", "o", "m", "p", "a", "n", "y">>>>}
SharedCells == {<<<<"c">>, <<"n">>, <<"r">>>>}

\* a sheet with columns parseCSV has no field for
ExtraHeaders == <<<<"N", "a", "m", "e">>, <<"C", "o", "n", "t", "i", "n", "e", "n", "t">>, <<"L", "o", "g", "s">>>>
ExtraCells == {<<<<"a">>, <<"E", "u", "r", "o", "p", "e">>, <<"x">>>>}

RowLists(variants, n) == UNION {[1..m -> variants] : m \in 1..n}
CsvFile(headers, rows, order) == [headers |-> headers, rows |-> rows, order |-> order]
CsvFiles ==
    {CsvFile(CsvHeaders, rs, o) :
        rs \in RowLists(RowVariants(StandardCells), MaxRows), o \in ColumnOrders}
    \cup {CsvFile(ShortHeaders, rs, "standard") :
        rs \in RowLists(RowVariants(ShortCells), MaxRows)}
    \cup {CsvFile(h, rs, "standard") :
        h \in SharedHeaders, rs \in RowLists(RowVariants(SharedCells), MaxRows)}
    \cup {CsvFile(ExtraHeaders, rs, "standard") :
        rs \in RowLists(RowVariants(ExtraCells), MaxRows)}

\* the text of the file
RowText(r, order) ==
    join(Permute([i \in 1..Len(r.cells) |->
                     IF r.quoted THEN esc(Str(r.cells[i])) ELSE r.cells[i]], order),
         <<",">>)
FileText(f) ==
    join(<<join(Permute(f.headers, f.order), <<",">>)>>
         \o [i \in 1..Len(f.rows) |-> RowText(f.rows[i], f.order)], <<"\n">>)

TableInit ==
    /\ CtlInit /\ EnvInit /\ ValOff /\ FileOff /\ hasFilePicker = TRUE
    /\ csvIn \in CsvFiles
    /\ csvContent = <<>>
    /\ csvOut = Undefined
    /\ csvPc = "file"

\* SettingsModal.handleFileChange: await file.text()
ReadFile ==
    /\ csvPc = "file"
    /\ csvContent' = FileText(csvIn)
    /\ csvPc' = "exported"
    /\ UNCHANGED <<ctlVars, disk, slot, saves, now, valVars, fileVars, csvIn, csvOut>>

TableNext == ReadFile \/ Import

SpecTable == TableInit /\ [][TableNext]_vars

\* the column a keyword stands for in file f: the leftmost header holding it
ColumnOf(f, keyword) ==
    LET hs == Permute(f.headers, f.order)
        at == {i \in 1..Len(hs) : includes(toLowerCase(trim(hs[i])), keyword)}
    IN IF at = {} THEN 0 ELSE CHOOSE i \in at : \A j \in at : i <= j
\* the value row r of file f has in that column, without surrounding blanks
CellOf(f, r, keyword) ==
    LET cs == Permute(r.cells, f.order)
        c == ColumnOf(f, keyword)
    IN IF c = 0 \/ c > Len(cs) THEN <<>> ELSE trim(cs[c])
\* the date cells of the file are dates, or bare and empty
DateCellsFine(f) ==
    \A i \in 1..Len(f.rows) : \A k \in {<<"l", "a", "s", "t", " ", "c", "o", "n", "t", "a", "c", "t">>, <<"n", "e", "x", "t", " ", "f", "o", "l", "l", "o", "w">>} :
        LET x == CellOf(f, f.rows[i], k) IN
        IF x = <<>> THEN ColumnOf(f, k) = 0 \/ ~f.rows[i].quoted
        ELSE DateParse(x) # Invalid
\* the rows that have at least two cells and a name
NamedRows(f) ==
    SelectSeq(f.rows, LAMBDA r : Len(r.cells) >= 2 /\ CellOf(f, r, <<"n", "a", "m", "e">>) # <<>>)

\* C12: parseCSV does not throw on rows with a blank name or fewer than two
\* cells; it returns one contact for each of the other rows, in order.
C12_BlankRowsDropped ==
    (csvPc = "imported" /\ csvIn \in CsvFiles /\ DateCellsFine(csvIn)) =>
        /\ ~IsThrown(csvOut)
        /\ [i \in 1..Len(csvOut.a) |-> TextOf(Get(csvOut.a[i], "name"))]
              = [i \in 1..Len(NamedRows(csvIn)) |->
                    CellOf(csvIn, NamedRows(csvIn)[i], <<"n", "a", "m", "e">>)]

AllBare(f) == \A i \in 1..Len(f.rows) : ~f.rows[i].quoted
DateFields ==
    {[field |-> "lastContactDate", keyword |-> <<"l", "a", "s", "t", " ", "c", "o", "n", "t", "a", "c", "t">>],
     [field |-> "nextFollowUpDate", keyword |-> <<"n", "e", "x", "t", " ", "f", "o", "l", "l", "o", "w">>]}

\* C13: a date cell that holds text which is no date gives a contact without
\* that date; parseCSV does not throw, and every row with a name is imported.
C13_BadDateAbsent ==
    (csvPc = "imported" /\ csvIn \in CsvFiles /\ AllBare(csvIn)) =>
        /\ ~IsThrown(csvOut)
        /\ Len(csvOut.a) = Len(NamedRows(csvIn))
        /\ \A i \in 1..Len(NamedRows(csvIn)) : \A d \in DateFields :
              LET x == CellOf(csvIn, NamedRows(csvIn)[i], d.keyword) IN
              (x # <<>> /\ DateParse(x) = Invalid) =>
                  Get(csvOut.a[i], d.field) = Undefined

----------------------------------------------------------------------------
(* The layout of the exported text *)

\* q is s wrapped in double quotes with every double quote of s doubled
QuotesBefore(s, j) == Cardinality({k \in 1..(j - 1) : s[k] = "\""})
QuotedLen(s) == Len(s) + QuotesBefore(s, Len(s) + 1) + 2
IsQuoted(q, s) ==
    /\ Len(q) = QuotedLen(s)
    /\ q[1] = "\"" /\ q[Len(q)] = "\""
    /\ \A j \in 1..Len(s) :
          /\ q[1 + j + QuotesBefore(s, j)] = s[j]
          /\ s[j] = "\"" => q[2 + j + QuotesBefore(s, j)] = "\""

\* the values of the 13 columns for contact c
ColumnValues(c) ==
    <<TextOf(Get(c, "name")), TextOf(Get(c, "company")), TextOf(Get(c, "role")),
      TextOf(Get(c, "status")), TextOf(Get(c, "sector")), TextOf(Get(c, "email")),
      TextOf(Get(c, "phone")), TextOf(Get(c, "location")),
      IF Get(c, "lastContactDate") = Undefined THEN <<>>
      ELSE toLocaleDateString(Get(c, "lastContactDate").s),
      IF Get(c, "nextFollowUpDate") = Undefined THEN <<>>
      ELSE toLocaleDateString(Get(c, "nextFollowUpDate").s),
      TextOf(Get(c, "rate")), TextOf(Get(c, "notes")),
      LET tags == Get(c, "tags").a IN
      join([i \in 1..Len(tags) |-> tags[i].s], <<",", " ">>)>>

RECURSIVE FieldStart(_, _)
\* where the k-th quoted field of a row starts
FieldStart(fields, k) ==
    IF k = 1 THEN 1
    ELSE FieldStart(fields, k - 1) + QuotedLen(fields[k - 1]) + 1
\* line is the quoted fields, in order, with one comma between neighbours
IsRowOf(line, fields) ==
    /\ Len(line) = FieldStart(fields, Len(fields) + 1) - 2
    /\ \A k \in 1..Len(fields) :
          LET from == FieldStart(fields, k)
              to == from + QuotedLen(fields[k]) - 1
          IN /\ IsQuoted(SubSeq(line, from, to), fields[k])
             /\ k < Len(fields) => line[to + 1] = ","

\* C14: the exported text is the header row Name, ..., Tags followed by one
\* row per contact in input order; a contact row is its 13 values in that
\* column order, each in double quotes with embedded quotes doubled, an
\* absent value as "", the tags joined with ", ".
C14_ExportLayout ==
    csvPc \in {"exported", "imported"} =>
        LET lines == split(csvContent, "\n") IN
        /\ Len(lines) = 1 + Len(csvIn)
        /\ lines[1] = <<"N", "a", "m", "e", ",", "C", "o", "m", "p", "a", "n", "y", ",", "R", "o", "l", "e", ",", "S", "t", "a", "t", "u", "s", ",", "S", "e", "c", "t", "o", "r", ",", "E", "m", "a", "i", "l", ",", "P", "h", "o", "n", "e", ",", "L", "o", "c", "a", "t", "i", "o", "n", ",", "L", "a", "s", "t", " ", "C", "o", "n", "t", "a", "c", "t", ",", "N", "e", "x", "t", " ", "F", "o", "l", "l", "o", "w", " ", "U", "p", ",", "R", "a", "t", "e", ",", "N", "o", "t", "e", "s", ",", "T", "a", "g", "s">>
        /\ \A i \in 1..Len(csvIn) :
              /\ Len(ColumnValues(csvIn[i])) = 13
              /\ IsRowOf(lines[i + 1], ColumnValues(csvIn[i]))

C14_Witness ==
    /\ csvPc = "exported"
    /\ Len(csvIn) = 2
    /\ Get(csvIn[1], "name") = Str(<<"a", "\"", "b">>)
    /\ Get(csvIn[2], "phone") = Undefined
    /\ Len(csvContent) > 0

\* no cell written in quotes is empty
NoQuotedEmpty(f) ==
    \A i \in 1..Len(f.rows) :
        f.rows[i].quoted => \A j \in 1..Len(f.rows[i].cells) : f.rows[i].cells[j] # <<>>
\* every row of the file came back as a contact
AllImported ==
    /\ csvPc = "imported" /\ csvIn \in CsvFiles
    /\ ~IsThrown(csvOut)
    /\ Len(csvOut.a) = Len(csvIn.rows)
\* the fields parseCSV fills with val(keyword) alone
PlainFields ==
    {[field |-> "name", keyword |-> <<"n", "a", "m", "e">>],
     [field |-> "role", keyword |-> <<"r", "o", "l", "e">>],
     [field |-> "email", keyword |-> <<"e", "m", "a", "i", "l">>],
     [field |-> "phone", keyword |-> <<"p", "h", "o", "n", "e">>],
     [field |-> "location", keyword |-> <<"l", "o", "c", "a", "t", "i", "o", "n">>],
     [field |-> "rate", keyword |-> <<"r", "a", "t", "e">>],
     [field |-> "notes", keyword |-> <<"n", "o", "t", "e", "s">>]}

\* C15: each field of an imported contact is the cell under the leftmost
\* header that contains the field's keyword (headers trimmed and lower-cased),
\* and is empty when no header contains it.
C15_LeftmostHeader ==
    (AllImported /\ NoQuotedEmpty(csvIn)) =>
        \A i \in 1..Len(csvIn.rows) : \A p \in PlainFields :
            TextOf(Get(csvOut.a[i], p.field)) = CellOf(csvIn, csvIn.rows[i], p.keyword)

C15_Witness ==
    /\ AllImported
    /\ csvIn.headers = <<<<"C", "o", "m", "p", "a", "n", "y", " ", "N", "a", "m", "e">>, <<"N", "a", "m", "e">>, <<"R", "o", "l", "e">>>>
    /\ Get(csvOut.a[1], "name") = Str(<<"c">>)
    /\ Get(csvOut.a[1], "email") = Str(<<>>)

\* the keywords parseCSV looks columns up by (storage.ts:229-248)
ImportKeywords ==
    {<<"n", "a", "m", "e">>, <<"c", "o", "m", "p", "a", "n", "y">>, <<"r", "o", "l", "e">>, <<"s", "t", "a", "t", "u", "s">>, <<"s", "e", "c", "t", "o", "r">>, <<"e", "m", "a", "i", "l">>, <<"p", "h", "o", "n", "e">>,
     <<"l", "o", "c", "a", "t", "i", "o", "n">>, <<"l", "a", "s", "t", " ", "c", "o", "n", "t", "a", "c", "t">>, <<"n", "e", "x", "t", " ", "f", "o", "l", "l", "o", "w">>, <<"r", "a", "t", "e">>, <<"n", "o", "t", "e", "s">>, <<"t", "a", "g", "s">>}

\* C16: a file with the 13 export columns in another order, header row and
\* data rows alike, is imported as the file with the columns in export order;
\* each keyword is held by exactly one of the 13 headers.
C16_ColumnOrderFree ==
    (csvPc = "imported" /\ csvIn \in CsvFiles) =>
        /\ csvOut = parseCSV(FileText([csvIn EXCEPT !.order = "standard"]), 0)
        /\ csvIn.headers = CsvHeaders =>
              \A k \in ImportKeywords :
                 Cardinality({i \in 1..Len(CsvHeaders) :
                                 includes(toLowerCase(trim(CsvHeaders[i])), k)}) = 1

C16_Witness ==
    /\ AllImported
    /\ csvIn.order = "reversed"
    /\ Len(csvOut.a) = 2
    /\ Get(csvOut.a[1], "company") = Str(<<"F", "o", "o", ",", " ", "I", "n", "c", ".">>)
    /\ Get(csvOut.a[2], "name") = Str(<<"a">>)
    /\ Get(csvOut.a[2], "tags") = Arr(<<Str(<<"t">>)>>)

\* C17: every contact parseCSV returns has the continent North America and
\* no logs, also when the file has columns headed Continent and Logs.
C17_ContinentAndLogsFixed ==
    (csvPc = "imported" /\ csvIn \in CsvFiles /\ ~IsThrown(csvOut)) =>
        \A i \in 1..Len(csvOut.a) :
            /\ Get(csvOut.a[i], "continent") = Str(<<"N", "o", "r", "t", "h", " ", "A", "m", "e", "r", "i", "c", "a">>)
            /\ Get(csvOut.a[i], "logs") = Arr(<<>>)

C17_Witness ==
    /\ AllImported
    /\ csvIn.headers = ExtraHeaders
    /\ csvIn.rows[1].cells = <<<<"a">>, <<"E", "u", "r", "o", "p", "e">>, <<"x">>>>
    /\ Get(csvOut.a[1], "continent") = Str(<<"N", "o", "r", "t", "h", " ", "A", "m", "e", "r", "i", "c", "a">>)

\* the fields parseCSV fills with val(keyword) || fallback
DefaultedFields ==
    {[field |-> "company", keyword |-> <<"c", "o", "m", "p", "a", "n", "y">>, fallback |-> <<"U", "n", "k", "n", "o", "w", "n">>],
     [field |-> "status", keyword |-> <<"s", "t", "a", "t", "u", "s">>, fallback |-> <<"N", "e", "w">>],
     [field |-> "sector", keyword |-> <<"s", "e", "c", "t", "o", "r">>, fallback |-> <<"O", "t", "h", "e", "r">>]}

\* C18: an imported contact has company Unknown, status New, sector Other
\* where the cell is blank, and the trimmed cell as it stands otherwise.
C18_BlankCellsDefaulted ==
    AllImported =>
        \A i \in 1..Len(csvIn.rows) : \A p \in DefaultedFields :
            LET x == CellOf(csvIn, csvIn.rows[i], p.keyword) IN
            Get(csvOut.a[i], p.field) = Str(IF x = <<>> THEN p.fallback ELSE x)

\* ---------------------------------------------------------------------
\* Classification fields of the in-memory document

StatusLabels == {ClientStatus[k] : k \in DOMAIN ClientStatus}

SectorLabels == {IndustrySector[k] : k \in DOMAIN IndustrySector}

\* status and sector of every contact are labels of their enumerations
Classified(cs) ==
    \A i \in 1..Len(cs) :
        /\ Get(cs[i], "status") \in {Str(l) : l \in StatusLabels}
        /\ Get(cs[i], "sector") \in {Str(l) : l \in SectorLabels}

\* C19: once a document is loaded in which every contact has a status among
\* Old, New, Contacted, Negotiating, Active, Completed, Archived and a sector
\* of the sector enumeration, no step of the controller (a save from the
\* contact form, a CSV import, a deletion) leaves a contact whose status or
\* sector is outside its enumeration.
C19_EnumerationsPreserved ==
    [][(isFileLoaded /\ Classified(clients)) => Classified(clients')]_vars

\* ---------------------------------------------------------------------
\* Contact identity

\* the ids of a list of contacts, in order
Ids(cs) == [i \in 1..Len(cs) |-> Get(cs[i], "id")]

\* every contact has an id (a non-empty text) and no two contacts share one
DistinctIds(cs) ==
    /\ \A i \in 1..Len(cs) : Truthy(Get(cs[i], "id"))
    /\ \A i, j \in 1..Len(cs) : i # j => Get(cs[i], "id") # Get(cs[j], "id")

\* the ids the generator returns for its calls from, ..., to - 1
Minted(from, to) == {randomUUID(k) : k \in from..(to - 1)}

\* the generator is fresh for the document: none of the ids it has yet to
\* return is in the document
Fresh(cs, n) == \A i \in 1..Len(cs) : Get(cs[i], "id") \notin Minted(n, MaxIds + 1)

\* a step of the contact form, of a card's delete button or of a CSV import
ContactStep ==
    \/ \E selected \in 0..MaxClients : ClientModalSubmit(selected)
    \/ \E i \in 1..MaxClients, confirmed \in BOOLEAN : ClientCardDelete(i, confirmed)
    \/ \E csvText \in ImportTexts, confirmed \in BOOLEAN : HandleFileChange(csvText, confirmed)

\* C20: from a document whose contact ids are pairwise distinct, and with a
\* generator that is fresh for it, every create, edit, CSV import and delete
\* leaves the ids pairwise distinct and the generator fresh; an edit leaves
\* the list of ids as it was; and every id the step adds to the document is
\* one the generator returned during that step, hence different from every
\* id the document holds or held before.
C20_IdsUniqueAndStable ==
    [][(ContactStep /\ DistinctIds(clients) /\ Fresh(clients, minted)) =>
         /\ DistinctIds(clients')
         /\ Fresh(clients', minted')
         /\ \A selected \in 1..Len(clients) :
               ClientModalSubmit(selected) => Ids(clients') = Ids(clients)
         /\ \A j \in 1..Len(clients') :
               (\A i \in 1..Len(clients) : Get(clients'[j], "id") # Get(clients[i], "id"))
                  => Get(clients'[j], "id") \in Minted(minted, minted')]_vars

\* a contact loaded with the document was renamed in the form and a row was
\* then imported: the loaded contact keeps its id and its place, the
\* imported one carries the first id the generator returned
C20_Witness ==
    /\ minted = 1
    /\ Len(clients) = 2
    /\ Get(clients[1], "id") = Get(SampleClient, "id")
    /\ Get(clients[1], "name") = Str(<<"z">>)
    /\ Get(clients[2], "id") = randomUUID(0)
    /\ Get(clients[2], "status") = Str(<<"F", "o", "o">>)

----------------------------------------------------------------------------
(* ClientModal (part_001): the contact form between opening and saving *)

MaxLogs == 2   \* log entries added while the form is open

\* new Date(a) > new Date(b): false when either is an invalid date
DateAfter(a, b) ==
    DateParse(a) # Invalid /\ DateParse(b) # Invalid /\ DateParse(a) > DateParse(b)

\* the log entry handleAddLog builds, or the RangeError of toISOString
LogEntry(newLog, n) ==
    LET date == toISOString(newLog.date) IN
    IF IsThrown(date) THEN date
    ELSE Obj([id |-> randomUUID(n), date |-> date,
              type |-> Str(newLog.type), notes |-> Str(newLog.notes)])

\* handleAddLog that takes every new entry's date as the last contact date
handleAddLog_alwaysLatest(formData, newLog, n) ==
    IF newLog.notes = <<>> THEN formData
    ELSE LET logEntry == LogEntry(newLog, n) IN
         IF IsThrown(logEntry) THEN formData
         ELSE LET updatedLogs == <<logEntry>> \o OrElse(Get(formData, "logs"), Arr(<<>>)).a
              IN WithField(WithField(formData, "logs", Arr(updatedLogs)),
                           "lastContactDate", Get(logEntry, "date"))

\* handleAddLog: the form data it leaves.  Without notes it returns at once;
\* an exception of toISOString ends it before setFormData.
handleAddLog(formData, newLog, n) ==
    IF newLog.notes = <<>> THEN formData
    ELSE LET logEntry == LogEntry(newLog, n) IN
         IF IsThrown(logEntry) THEN formData
         ELSE LET updatedLogs == <<logEntry>> \o OrElse(Get(formData, "logs"), Arr(<<>>)).a
                  prev == Get(formData, "lastContactDate")
              IN WithField(WithField(formData, "logs", Arr(updatedLogs)),
                           "lastContactDate",
                           IF ~Truthy(prev) \/ DateAfter(Get(logEntry, "date").s, prev.s)
                           THEN Get(logEntry, "date")
                           ELSE prev)

\* handleDeleteLog: the form data without the log entries of that id
handleDeleteLog(formData, logId) ==
    WithField(formData, "logs",
              Arr(SelectSeq(OrElse(Get(formData, "logs"), Arr(<<>>)).a,
                            LAMBDA l : Get(l, "id") # logId)))

\* midnight of day d as toISOString writes it
Midnight(d) == Str(ISOString(d * TicksPerDay))

\* a contact with a status time, a last contact date and two log entries,
\* the newer one first
LoggedClient ==
    WithField(WithField(WithField(SampleClient,
        "statusUpdatedAt", Str(ISOString(0))),
        "lastContactDate", Midnight(1)),
        "logs", Arr(<<Obj([id |-> Str(<<"b">>), date |-> Midnight(1),
                           type |-> Str(<<"C", "a", "l", "l">>), notes |-> Str(<<"k">>)]),
                      Obj([id |-> Str(<<"a">>), date |-> Midnight(0),
                           type |-> Str(<<"E", "m", "a", "i", "l">>), notes |-> Str(<<"j">>)])>>))

\* the client prop: null for 'add contact', else the contact the form was
\* opened on (one as parseCSV or an old file leaves it, one fully filled)
FormProps == {Null, SampleClient, LoggedClient}

\* what the log form can hold when 'Add Entry' is pressed: the date input is
\* a day or was cleared, the notes are typed or not
NewLogs ==
    {[type |-> <<"E", "m", "a", "i", "l">>, date |-> d, notes |-> m] :
        d \in {<<"0">>, <<"1">>, <<"2">>, <<>>}, m \in {<<>>, <<"m">>}}

\* the options of the status select the user picks from
StatusChoices == {ClientStatus["NEW"], ClientStatus["ACTIVE"]}

FormInit ==
    /\ CtlInit /\ ValOff /\ FileOff /\ hasFilePicker = TRUE
    /\ disk = <<>> /\ slot = NoItem /\ saves = <<>>
    /\ now \in 0..MaxTime
    /\ csvIn \in FormProps
    /\ csvContent \in FormData(csvIn)
    /\ csvOut = Undefined
    /\ csvPc = "form"

FormFrame ==
    UNCHANGED <<fileHandle, storageMode, isFileLoaded, fsError, isSaving,
                clients, userProfile, isSettingsOpen, openFlow, createFlow,
                alerts, caught, lastSave, hasFilePicker, disk, slot, saves, now,
                valVars, fileVars, csvIn>>

\* the status select: handleChange('status', value)
ChangeStatus(status) ==
    /\ csvPc = "form"
    /\ csvContent' = WithField(csvContent, "status", Str(status))
    /\ UNCHANGED <<minted, csvOut, csvPc>>
    /\ FormFrame

\* the 'Add Entry' button: handleAddLog
AddLog(newLog) ==
    /\ csvPc = "form"
    /\ minted < MaxLogs
    /\ csvContent' = handleAddLog(csvContent, newLog, minted)
    /\ minted' = IF csvContent' = csvContent THEN minted ELSE minted + 1
    /\ UNCHANGED <<csvOut, csvPc>>
    /\ FormFrame

\* the bin of the i-th log entry shown: handleDeleteLog(log.id)
DeleteLog(i) ==
    /\ csvPc = "form"
    /\ i \in 1..Len(OrElse(Get(csvContent, "logs"), Arr(<<>>)).a)
    /\ csvContent' = handleDeleteLog(csvContent, Get(Get(csvContent, "logs").a[i], "id"))
    /\ UNCHANGED <<minted, csvOut, csvPc>>
    /\ FormFrame

\* the form is submitted: handleSubmit hands newClient to onSave and closes
Submit ==
    /\ csvPc = "form"
    /\ handleSubmit(csvIn, csvContent, minted, now) # Undefined
    /\ csvOut' = handleSubmit(csvIn, csvContent, minted, now)
    /\ csvPc' = "saved"
    /\ UNCHANGED <<minted, csvContent>>
    /\ FormFrame

FormNext ==
    \/ \E status \in StatusChoices : ChangeStatus(status)
    \/ \E newLog \in NewLogs : AddLog(newLog)
    \/ \E i \in 1..(MaxLogs + 2) : DeleteLog(i)
    \/ Submit

SpecForm == FormInit /\ [][FormNext]_vars

\* C21: when the form is saved, the contact handed to onSave has the
\* statusUpdatedAt of the contact the form was opened on if that contact's
\* status is the saved status (also when the contact had none), and the
\* current time if the status differs or the contact is new.
C21_StatusTimeOnlyOnChange ==
    csvPc = "saved" =>
        IF csvIn # Null /\ Get(csvIn, "status") = Get(csvOut, "status")
        THEN Get(csvOut, "statusUpdatedAt") = Get(csvIn, "statusUpdatedAt")
        ELSE Get(csvOut, "statusUpdatedAt") = Str(ISOString(now))

\* the log entries of the form data
FormLogs(formData) == OrElse(Get(formData, "logs"), Arr(<<>>)).a

\* the log form adds an entry: it has notes and a date in its date input
AddsEntry(newLog) == newLog.notes # <<>> /\ DateParse(newLog.date) # Invalid

\* C22: every step of handleAddLog that adds an entry leaves lastContactDate
\* equal to the entry's date if the form had no lastContactDate or the
\* entry's date is strictly later than it, and leaves it as it was otherwise.
C22_LastContactNeverRegresses ==
    [][\A newLog \in NewLogs :
          (AddLog(newLog) /\ AddsEntry(newLog)) =>
             LET prev == Get(csvContent, "lastContactDate")
                 d == DateParse(newLog.date)
             IN /\ Len(FormLogs(csvContent')) = Len(FormLogs(csvContent)) + 1
                /\ Get(csvContent', "lastContactDate") =
                      IF prev = Undefined \/ d > DateParse(prev.s)
                      THEN Str(ISOString(d))
                      ELSE prev]_vars

\* an entry dated day 0 was added to the contact whose last contact was on
\* day 1: the entry is in the log and the last contact date is still day 1
C22_Witness ==
    /\ csvPc = "form"
    /\ csvIn = LoggedClient
    /\ Len(FormLogs(csvContent)) = 3
    /\ Get(FormLogs(csvContent)[1], "date") = Midnight(0)
    /\ Get(csvContent, "lastContactDate") = Midnight(1)

\* C23: in the contact form the log entries are ordered newest first: every
\* entry's date is no earlier than the date of the entry that follows it,
\* whatever entries were added and deleted since the form was opened.
C23_LogsNewestFirst ==
    csvPc \in {"form", "saved"} =>
        LET logs == FormLogs(csvContent) IN
        \A i \in 1..(Len(logs) - 1) :
            DateParse(Get(logs[i], "date").s) >= DateParse(Get(logs[i + 1], "date").s)

----------------------------------------------------------------------------
(* The CSV import of the settings dialog, from start-up to the saved file *)

\* CSV files picked in the import dialog: files with one or two usable rows,
\* and files that are empty, have only a header, have no name column, have a
\* row without a name, have a row of one field, or hold an unreadable date
ImportFiles ==
    ImportTexts
    \cup {join(<<<<"N", "a", "m", "e", ",", "C", "o", "m", "p", "a", "n", "y">>, <<"x", ",", "c">>, <<"y", ",", "d">>>>, <<"\n">>),
          <<>>,
          <<"N", "a", "m", "e", ",", "C", "o", "m", "p", "a", "n", "y">>,
          join(<<<<"C", "o", "m", "p", "a", "n", "y", ",", "R", "o", "l", "e">>, <<"b", ",", "r">>>>, <<"\n">>),
          join(<<<<"N", "a", "m", "e", ",", "C", "o", "m", "p", "a", "n", "y">>, <<",", "b">>>>, <<"\n">>),
          join(<<<<"N", "a", "m", "e", ",", "C", "o", "m", "p", "a", "n", "y">>, <<"x">>>>, <<"\n">>),
          join(<<<<"N", "a", "m", "e", ",", "L", "a", "s", "t", " ", "C", "o", "n", "t", "a", "c", "t">>, <<"x", ",", "x", "y", "z">>>>, <<"\n">>)}

ImportNext ==
    \/ HandleUseLocalStorage
    \/ HandleCreateFile
    \/ HandleCreateFile_Picked
    \/ HandleCreateFile_Written
    \/ \E csvText \in ImportFiles, confirmed \in BOOLEAN :
          HandleFileChange(csvText, confirmed)
    \/ \E i \in 1..MaxClients : ClientCardDelete(i, TRUE)
    \/ \E i \in 1..MaxSaves : SaveData_Settled(i)
    \/ SaveData_TimerFired
    \/ ToggleSettings
    \/ Tick

SpecImport == Init /\ [][ImportNext]_vars

\* the files in which parseCSV finds no usable contact (the ids it would mint
\* play no part in that)
EmptyFiles == {csvText \in ImportFiles : parseCSV(csvText, 0) = Arr(<<>>)}

\* C24: when parseCSV finds no usable contact in the picked file, the step of
\* handleFileChange shows the hint to check the CSV format and changes
\* nothing else: the contacts and the profile in memory, the saves in flight,
\* the saving flag, the file and the localStorage slot are as before.
C24_EmptyImportOnlyHints ==
    [][\A csvText \in EmptyFiles, confirmed \in BOOLEAN :
          HandleFileChange(csvText, confirmed) =>
             /\ alerts' = alerts \cup {IMPORT_EMPTY_MSG}
             /\ UNCHANGED <<clients, userProfile, saves, isSaving, lastSave, disk, slot>>]_vars

\* the hint was shown in a loaded session in which no save was ever started
C24_Witness ==
    /\ isFileLoaded
    /\ IMPORT_EMPTY_MSG \in alerts
    /\ saves = <<>>
    /\ ~lastSave.called

----------------------------------------------------------------------------
(* Frame of the contact handlers *)

\* the contact the form hands to onSave when it was opened on clients[selected]
\* (selected = 0: on no contact)
Submitted(selected) ==
    LET client == IF selected = 0 THEN Null ELSE clients[selected] IN
    handleSubmit(client, CHOOSE formData \in FormData(client) : TRUE, minted, now)

\* C25: a save from the contact form into a document with distinct ids
\* leaves the profile as it was and either, when a contact of the saved id
\* is in the document, puts the saved contact in that contact's place with
\* the length, the order and every other contact unchanged, or, when none
\* is, appends the saved contact after the unchanged existing ones.
C25_SaveReplacesById ==
    [][\A selected \in 0..MaxClients :
          (ClientModalSubmit(selected) /\ DistinctIds(clients)) =>
             LET newClient == Submitted(selected)
                 held == {i \in 1..Len(clients) :
                             Get(clients[i], "id") = Get(newClient, "id")}
             IN /\ userProfile' = userProfile
                /\ IF held # {}
                   THEN /\ Len(clients') = Len(clients)
                        /\ \A i \in 1..Len(clients) :
                              clients'[i] = IF i \in held THEN newClient ELSE clients[i]
                   ELSE /\ Len(clients') = Len(clients) + 1
                        /\ SubSeq(clients', 1, Len(clients)) = clients
                        /\ clients'[Len(clients')] = newClient]_vars

\* a contact was added to a loaded document and the loaded contact was then
\* renamed in the form: it is still first, the added contact still second
C25_Witness ==
    /\ Len(clients) = 2
    /\ Get(clients[1], "id") = Get(SampleClient, "id")
    /\ Get(clients[1], "name") = Str(<<"z">>)
    /\ Get(clients[2], "id") = randomUUID(0)
    /\ Get(clients[2], "name") = Str(<<"n">>)

\* this step started a save of the document made of contacts cs and profile
\* p: in FILE mode a write of it is in flight, in LOCAL mode the storage was
\* called with it (and holds it unless the storage refused)
SaveStartedOf(cs, p) ==
    LET data == AppData(Arr(cs), p, Str(ISOString(now))) IN
    IF storageMode = "FILE"
    THEN /\ Len(saves') = Len(saves) + 1
         /\ saves'[Len(saves')].data = data
         /\ Writing(saves'[Len(saves')])
         /\ isSaving'
    ELSE /\ lastSave'.called
         /\ IF lastSave'.rejected THEN slot' = slot
            ELSE /\ slot' = Item(Stringify(data, FALSE))
                 /\ Len(saves') = Len(saves) + 1
                 /\ saves'[Len(saves')].data = data
                 /\ isSaving'

\* s without its i-th element
Without(s, i) == [j \in 1..(Len(s) - 1) |-> IF j < i THEN s[j] ELSE s[j + 1]]

UsableFiles ==
    {csvText \in ImportFiles :
        /\ ~IsThrown(parseCSV(csvText, 0))
        /\ parseCSV(csvText, 0) # Arr(<<>>)}

\* C27: a step of handleFileChange on a file with usable rows (parseCSV then
\* mints at least one id): confirmed, the
\* contacts in memory are the existing ones, unchanged and in their order,
\* followed by the imported ones in the order of their rows, the profile
\* is unchanged and a save of exactly that document is started; declined,
\* the document in memory, the saves and the stored data are unchanged.
C27_ImportOnlyAppends ==
    [][\A csvText \in UsableFiles, confirmed \in BOOLEAN :
          (minted' # minted /\ HandleFileChange(csvText, confirmed)) =>
             LET imported == parseCSV(csvText, minted).a IN
             IF confirmed
             THEN /\ SubSeq(clients', 1, Len(clients)) = clients
                  /\ SubSeq(clients', Len(clients) + 1, Len(clients')) = imported
                  /\ userProfile' = userProfile
                  /\ SaveStartedOf(clients \o imported, userProfile)
             ELSE UNCHANGED <<clients, userProfile, saves, isSaving, lastSave,
                              slot, disk, alerts>>]_vars

\* a row was imported into the document of a newly created file and the
\* write has finished: the seeded contact is first, the imported one second,
\* and the file holds that document
C27_Witness ==
    /\ storageMode = "FILE" /\ isFileLoaded
    /\ IMPORT_OK_MSG \in alerts
    /\ Len(clients) = 2
    /\ Get(clients[1], "id") = Str(SeedId)
    /\ Get(clients[2], "id") = randomUUID(0)
    /\ Len(saves) = 1 /\ saves[1].pc = "done"
    /\ \E t \in 0..MaxClock :
          disk = Stringify(AppData(Arr(clients), userProfile, Str(ISOString(t))), TRUE)

\* the file holds a document with the contacts and the profile in memory
FileHoldsMemory ==
    \E t \in 0..MaxClock :
        disk = Stringify(AppData(Arr(clients), userProfile, Str(ISOString(t))), TRUE)

\* C28: in FILE mode, once every save that was started has run to its end
\* and none has failed, the file holds the contacts and the profile that
\* are in memory.
C28_LastWriteWins ==
    (/\ isFileLoaded /\ storageMode = "FILE"
     /\ saves # <<>>
     /\ \A i \in 1..Len(saves) : saves[i].pc = "done"
     /\ SAVE_FAILED_MSG \notin alerts)
    => FileHoldsMemory

\* the saveData calls that have started and not run to their end
Pending == {i \in 1..Len(saves) : saves[i].pc # "done"}

\* C29: whenever a saveData call has started and not yet finished, isSaving
\* is true, so the saving indicator is shown for the whole of every save.
C29_IndicatorCoversSaves ==
    Pending # {} => isSaving

----------------------------------------------------------------------------
(* Choosing browser storage at start-up, whatever the slot holds *)

LocalInit ==
    /\ CtlInit /\ ValOff /\ FileOff /\ CsvOff /\ hasFilePicker = TRUE
    /\ disk = <<>> /\ saves = <<>> /\ now = 0
    /\ slot \in SlotValues

LocalNext == Tick \/ HandleUseLocalStorage

SpecLocal == LocalInit /\ [][LocalNext]_vars

\* the slot holds text that JSON.parse accepts
Parseable(s) == s.present /\ s.text # <<>> /\ ~IsThrown(JSONparse(s.text))

\* the contacts and the profile in memory are those of the validated
\* document of slot s
MemoryIs(s, cs, p) ==
    /\ Parseable(s)
    /\ cs = Get(validateData(JSONparse(s.text), now), "clients").a
    /\ p = Get(validateData(JSONparse(s.text), now), "profile")

====
